---- MODULE Spec2Model ----
(***************************************************************************)
(* State-machine model of the 247nigeria marketplace backend: the          *)
(* password-reset flow, signup, e-mail and identity verification           *)
(* (api/views.py), the verification gate, listing creation with images,    *)
(* listing deletion, detail and list pages, job applications / property    *)
(* inquiries and the moderation workflow (jobs/views.py,                   *)
(* properties/views.py, accounts/models.py).                               *)
(*                                                                         *)
(* The database tables are the variables.  A request is a slot of `procs`: *)
(* it is idle, runs one handler (one action per database statement where   *)
(* the interleaving matters, one action for a whole handler otherwise),    *)
(* ends in pc = "done" holding the response, and is then returned.         *)
(***************************************************************************)
EXTENDS Integers, FiniteSets, Sequences, TLC

VARIABLES
    users,      \* User table: id -> [email, email_verified, is_staff, password]
    identity,   \* IdentityVerification table: user id -> [state, document], state being
                \* "none" (no row) | "unverified" | "verified"
    listings,   \* Job / Property tables: id -> row, or NoRow
    images,     \* JobImage / PropertyImage tables: set of rows
    inters,     \* JobApplication / PropertyInquiry tables: set of rows
    otps,       \* PasswordResetOTP table: set of rows [id, user, code, expires_at]
    tokens,     \* PasswordResetToken table: set of rows [user, token, expires_at]
    now,        \* the clock read by timezone.now()
    procs,      \* request slots: slot -> the request it runs
    hist        \* history of the run: the id sequences of the tables, the state of
                \* the mail service, and what the properties read

vars == <<users, identity, listings, images, inters, otps, tokens, now, procs, hist>>

----------------------------------------------------------------------------
(* Bounds of the model *)

MaxSkew == 1        \* requests are made at most MaxSkew minutes after a multiple of Ttl
MaxIssued == 2      \* OTP rows issued in one run
MaxListings == 2    \* rows of the Job and Property tables, ids 1..MaxListings
MaxImages == 3      \* image files of one creation request; rows added by single image saves
MaxReq == 3         \* marketplace requests begun in one run

(* accounts/models.py:47, api/views.py:336 and :374: timedelta(minutes=15) *)
Ttl == 15

(* the instants of a run at which the clock is read *)
Instants == {t \in 0..(Ttl + MaxSkew) : t % Ttl <= MaxSkew}

UserIds == {"alice", "bob", "admin"}
NoUser == "nobody"
NoRow == [kind |-> "none"]

(* random.randint(1000, 9999) and random.randint(10000000, 99999999), as the draws of a run *)
Codes == {"1111", "2222"}
TokenVals == {"10000001", "10000002"}
Passwords == {"pw1"}
(* the addresses a request can carry: the stored ones and one that differs in case *)
Emails == {"alice@x.ng", "bob@x.ng", "Alice@x.ng"}

Procs == {"p1", "p2"}
Idle == [pc |-> "idle"]

Done(req, res) == [req EXCEPT !.pc = "done"] @@ [res |-> res]

(* the IdentityVerification row of a user: none, or a row with its verified
   flag and the document it was submitted with *)
IdentityRow(state) ==
    [state |-> state, document |-> IF state = "none" THEN "none" ELSE "doc0"]

(* str.lower() on the addresses of the model *)
Lower(e) ==
    CASE e = "Alice@x.ng" -> "alice@x.ng"
      [] e = "Carol@x.ng" -> "carol@x.ng"
      [] OTHER -> e

(* User.objects.get(email=email): the exact-match lookup of api/views.py:328 and :359 *)
UserByEmail(e) == {u \in UserIds : users[u].email = e}

(* the users whose stored address equals e when letter case is ignored *)
UserByEmailIgnoringCase(e) == {u \in UserIds : Lower(users[u].email) = Lower(e)}

----------------------------------------------------------------------------
(* Password reset flow, api/views.py *)

(* a slot takes a new request when it is idle or holds a response that was read *)
Free(p) == procs[p].pc \in {"idle", "done"}

(* PasswordResetOTP.objects.create(user, code, expires_at=now + 15 min), api/views.py:333 *)
NewOtp(u, c) ==
    [id |-> Cardinality(hist.issued) + 1, user |-> u, code |-> c, expires_at |-> now + Ttl]

(* request_password_reset: one OTP row per call, then the e-mail send *)
RequestPasswordReset(p) ==
    /\ Free(p)
    /\ \E e \in Emails, c \in Codes, mailOk \in BOOLEAN :
         LET req == [pc |-> "run", op |-> "request_reset"]
             found == UserByEmail(e)
         IN  IF found = {}
             THEN /\ procs' = [procs EXCEPT ![p] = Done(req, "not_found") @@
                         [known |-> UserByEmailIgnoringCase(e) # {}]]
                  /\ UNCHANGED <<otps, hist>>
             ELSE /\ Cardinality(hist.issued) < MaxIssued
                  /\ LET u == CHOOSE x \in found : TRUE
                         row == NewOtp(u, c)
                     IN  /\ otps' = otps \cup {row}
                         /\ hist' = [hist EXCEPT !.issued = @ \cup {row.id},
                                                 !.asked = @ \cup {u},
                                                 !.spent = {s \in @ : s[1] # u}]
                         /\ procs' = [procs EXCEPT ![p] =
                                Done(req, IF mailOk THEN "otp_sent" ELSE "email_failed")]
    /\ UNCHANGED <<users, identity, listings, images, inters, tokens, now>>

(* verify_otp without the cleanup of expired rows *)
CleanExpiredOtps_Skipped(rows, u, t) == rows

(* PasswordResetOTP.objects.filter(user=user, expires_at__lt=timezone.now()).delete() *)
CleanExpiredOtps(rows, u, t) == {r \in rows : ~(r.user = u /\ r.expires_at < t)}

(* verify_otp matching the code against the OTP rows of every user *)
MatchOtp_AnyUser(rows, u, c) == {r \in rows : r.code = c}

(* PasswordResetOTP.objects.filter(user=user, code=otp), api/views.py:365 *)
MatchOtp(rows, u, c) == {r \in rows : r.user = u /\ r.code = c}

(* PasswordResetOTP.objects.filter(user=user).delete(), api/views.py:378 *)
OtpsAfterVerify(rows, u) == {r \in rows : r.user # u}

(* the submitted code is the code of an unexpired OTP of the user, and the
   user's most recently issued unexpired OTP has another code *)
EarlierCode(u, c) ==
    LET mine == {r \in otps : r.user = u /\ now <= r.expires_at}
    IN  /\ \E r \in mine : r.code = c
        /\ \E r \in mine : r.code # c /\ \A o \in mine : o.id <= r.id

(* the submitted code is the code of an OTP of the user that has not expired *)
CorrectCode(u, c) == \E r \in otps : r.user = u /\ r.code = c /\ now <= r.expires_at

(* verify_otp: expired rows of the user deleted, the code matched, a token row
   created (token is unique: a draw that is in use raises IntegrityError, which
   the view does not catch), all OTP rows of the user deleted *)
VerifyOtp(p) ==
    /\ Free(p)
    /\ \E e \in Emails, c \in Codes, t \in TokenVals :
         LET req == [pc |-> "run", op |-> "verify_otp"]
             found == UserByEmail(e)
         IN  IF found = {}
             THEN /\ procs' = [procs EXCEPT ![p] = Done(req, "not_found") @@
                         [known |-> UserByEmailIgnoringCase(e) # {}]]
                  /\ UNCHANGED <<otps, tokens, hist>>
             ELSE LET u == CHOOSE x \in found : TRUE
                      live == CleanExpiredOtps(otps, u, now)
                      obs == [correct |-> CorrectCode(u, c),
                              replay |-> <<u, c>> \in hist.spent,
                              earlier |-> EarlierCode(u, c),
                              lapsed |-> \E r \in otps :
                                  r.user = u /\ r.code = c /\ r.expires_at < now,
                              clash |-> \E k \in tokens : k.token = t]
                  IN  IF MatchOtp(live, u, c) = {}
                      THEN /\ otps' = live
                           /\ UNCHANGED <<tokens, hist>>
                           /\ procs' = [procs EXCEPT ![p] = Done(req, "invalid_otp") @@ obs @@
                                  [issued |-> FALSE,
                                   stale |-> \E r \in otps' : r.user = u /\ r.expires_at < now,
                                   left |-> Cardinality({r \in otps' : r.user = u})]]
                      ELSE IF \E k \in tokens : k.token = t
                      THEN /\ otps' = live
                           /\ UNCHANGED <<tokens, hist>>
                           /\ procs' = [procs EXCEPT ![p] = Done(req, "server_error") @@ obs @@
                                  [issued |-> FALSE,
                                   stale |-> \E r \in otps' : r.user = u /\ r.expires_at < now,
                                   left |-> Cardinality({r \in otps' : r.user = u})]]
                      ELSE /\ tokens' = tokens \cup
                                  {[user |-> u, token |-> t, expires_at |-> now + Ttl]}
                           /\ otps' = OtpsAfterVerify(live, u)
                           /\ hist' = [hist EXCEPT
                                  !.spent = @ \cup {<<u, c>>},
                                  !.given = {g \in @ : g[2] # t} \cup {<<u, t>>},
                                  !.voided = @ \ {t}]
                           /\ procs' = [procs EXCEPT ![p] = Done(req, "otp_verified") @@ obs @@
                                  [issued |-> TRUE,
                                   stale |-> \E r \in otps' : r.user = u /\ r.expires_at < now,
                                   left |-> Cardinality({r \in otps' : r.user = u})]]
    /\ UNCHANGED <<users, identity, listings, images, inters, now>>

(* PasswordResetToken.objects.filter(expires_at__lt=timezone.now()).delete() *)
CleanExpiredTokens(rows, t) == {r \in rows : ~(r.expires_at < t)}

(* the token values issued to user u and not issued to anyone since *)
GivenTo(u) == {g[2] : g \in {x \in hist.given : x[1] = u}}

(* reset_password deleting only the token that was presented *)
TokensAfterReset_OnlyPresented(rows, row) == rows \ {row}

(* PasswordResetToken.objects.filter(user=user).delete() after the password
   is saved *)
TokensAfterReset(rows, row) == {r \in rows : r.user # row.user}

(* reset_password: serializer check, all expired tokens deleted, the token looked
   up, its expiry checked against a second reading of the clock (d later), the
   password set and all tokens of the user deleted *)
ResetPassword(p) ==
    /\ Free(p)
    /\ \E valid \in BOOLEAN, t \in TokenVals \cup {""}, pw \in Passwords, d \in {0, 1} :
         LET req == [pc |-> "run", op |-> "reset_password"]
             kept == CleanExpiredTokens(tokens, now)
             hit == {r \in kept : r.token = t}
             obs == [expired |-> \E r \in tokens : r.token = t /\ r.expires_at < now,
                     voided |-> t \in hist.voided,
                     old |-> t \in hist.old]
         IN  IF ~valid \/ t = ""
             THEN /\ d = 0
                  /\ procs' = [procs EXCEPT ![p] =
                         Done(req, IF ~valid THEN "invalid_data" ELSE "token_required")
                         @@ obs @@ [changed |-> FALSE,
                                    exists |-> \E r \in tokens : r.token = t]]
                  /\ UNCHANGED <<users, tokens, now, hist>>
             ELSE /\ now + d \in Instants
                  /\ now' = now + d
                  /\ IF hit = {}
                     THEN /\ tokens' = kept
                          /\ UNCHANGED <<users, hist>>
                          /\ procs' = [procs EXCEPT ![p] = Done(req, "invalid_token")
                                 @@ obs @@ [changed |-> FALSE,
                                            exists |-> \E r \in tokens' : r.token = t]]
                     ELSE LET row == CHOOSE r \in hit : TRUE
                          IN  IF row.expires_at < now + d
                              THEN /\ tokens' = kept \ {row}
                                   /\ UNCHANGED <<users, hist>>
                                   /\ procs' = [procs EXCEPT ![p] =
                                          Done(req, "token_expired")
                                          @@ obs @@ [changed |-> FALSE,
                                             exists |-> \E r \in tokens' : r.token = t]]
                              ELSE /\ users' = [users EXCEPT ![row.user].password = pw]
                                   /\ tokens' = TokensAfterReset(kept, row)
                                   /\ hist' = [hist EXCEPT
                                          !.voided = @ \cup GivenTo(row.user),
                                          !.old = @ \cup GivenTo(row.user)]
                                   /\ procs' = [procs EXCEPT ![p] =
                                          Done(req, "password_reset")
                                          @@ obs @@ [changed |-> users' # users,
                                             exists |-> \E r \in tokens' : r.token = t,
                                             left |-> Cardinality(
                                                 {r \in tokens' : r.user = row.user})]]
    /\ UNCHANGED <<identity, listings, images, inters, otps>>

----------------------------------------------------------------------------
(* Verification gate.  The same three checks are written out in each of the
   four handlers; each copy is modelled from its own lines. *)

(* create_job_post with the identity checks left out *)
GateCreateJob_EmailOnly(u) ==
    IF ~users[u].email_verified THEN "email_not_verified" ELSE "allowed"

(* create_job_post, jobs/views.py:47-66 *)
GateCreateJob(u) ==
    IF ~users[u].email_verified THEN "email_not_verified"
    ELSE IF identity[u].state = "none" THEN "identity_not_submitted"
    ELSE IF identity[u].state # "verified" THEN "identity_not_approved"
    ELSE "allowed"

(* create_property_post, properties/views.py:51-70 *)
GateCreateProperty(u) ==
    IF ~users[u].email_verified THEN "email_not_verified"
    ELSE IF identity[u].state = "none" THEN "identity_not_submitted"
    ELSE IF identity[u].state # "verified" THEN "identity_not_approved"
    ELSE "allowed"

(* apply_to_job, jobs/views.py:424-443 *)
GateApply(u) ==
    IF ~users[u].email_verified THEN "email_not_verified"
    ELSE IF identity[u].state = "none" THEN "identity_not_submitted"
    ELSE IF identity[u].state # "verified" THEN "identity_not_approved"
    ELSE "allowed"

(* create_property_inquiry with the identity checks ahead of the email check *)
GateInquire_IdentityFirst(u) ==
    IF identity[u].state = "none" THEN "identity_not_submitted"
    ELSE IF identity[u].state # "verified" THEN "identity_not_approved"
    ELSE IF ~users[u].email_verified THEN "email_not_verified"
    ELSE "allowed"

(* create_property_inquiry, properties/views.py:409-428 *)
GateInquire(u) ==
    IF ~users[u].email_verified THEN "email_not_verified"
    ELSE IF identity[u].state = "none" THEN "identity_not_submitted"
    ELSE IF identity[u].state # "verified" THEN "identity_not_approved"
    ELSE "allowed"

(* a notification helper that lets the exception of send_mail through *)
SendNotification_Uncaught(up) == IF up THEN "sent" ELSE "raised"

(* send_job_posted_email and the other helpers of jobs/email_utils.py and
   properties/property_email_utils.py: send_mail(..., fail_silently=False)
   inside try, return True; except Exception: return False.  send_mail raises
   when the mail service is down *)
SendNotification(up) == IF up THEN "sent" ELSE "not_sent"

(* a request of the marketplace begins in a free slot; the run counts the
   requests it has begun and remembers whether any two of them overlapped, and
   the slots whose present request has overlapped with another *)
Begin(p) ==
    /\ Free(p)
    /\ hist.nreq < MaxReq
    /\ hist' = [hist EXCEPT !.nreq = @ + 1,
                            !.seq = @ /\ \A q \in Procs \ {p} : Free(q),
                            !.over = IF \A q \in Procs \ {p} : Free(q)
                                     THEN @ \ {p}
                                     ELSE @ \cup {p} \cup {q \in Procs : ~Free(q)}]

(* what a request read of its user when it passed through the gate *)
Flags(u) == [email_verified |-> users[u].email_verified, identity |-> identity[u].state]

----------------------------------------------------------------------------
(* Listings and their images *)

ListingIds == 1..MaxListings
Posters == {"alice"}
Kinds == {"job", "property"}
NoDate == << >>

Exists(l) == l \in ListingIds /\ listings[l] # NoRow

(* Job.objects.create(..., posted_by=request.user, status='pending') with the
   defaults of the model: no approver, no approval date, no rejection reason,
   counter 0, is_active True, view_count 0 (a column of Property only: it
   stays 0 in the rows of kind "job") *)
NewListing(kind, u) ==
    [kind |-> kind, status |-> "pending", posted_by |-> u, approved_by |-> NoUser,
     approval_date |-> NoDate, rejection_reason |-> "null", count |-> 0,
     is_active |-> TRUE, view_count |-> 0]

(* the id the table gives the next row *)
NewListingId == Cardinality({l \in ListingIds : listings[l] # NoRow}) + 1

(* the ids a request names: those of the rows there are, and one of no row *)
ListingArgs == {l \in ListingIds : listings[l] # NoRow \/ l = NewListingId}

NewImageId(imgs) == Cardinality(imgs) + 1

(* JobImage.save, first statement: the thumbnail flag of the other rows of the
   listing is cleared when the saved row is a thumbnail *)
ClearSiblings(imgs, row) ==
    IF row.is_thumbnail
    THEN {IF r.listing = row.listing /\ r.is_thumbnail /\ r.id # row.id
          THEN [r EXCEPT !.is_thumbnail = FALSE] ELSE r : r \in imgs}
    ELSE imgs

(* JobImage.save, second statement: super().save() inserts the row, or updates
   the row of the same pk *)
WriteImage(imgs, row) ==
    IF row.id = 0
    THEN imgs \cup {[row EXCEPT !.id = NewImageId(imgs)]}
    ELSE {r \in imgs : r.id # row.id} \cup {row}

(* data.get('thumbnail_index', 0) *)
ThumbInputs ==
    {[given |-> FALSE, numeric |-> TRUE, val |-> 0],
     [given |-> TRUE, numeric |-> FALSE, val |-> 0]}
    \cup {[given |-> TRUE, numeric |-> TRUE, val |-> v] : v \in (0 - 1)..MaxImages}

ThumbnailIndex(t) == IF t.given THEN t.val ELSE 0

(* the creation loop marking the first upload whatever thumbnail_index says *)
ImageOfUpload_FirstIsThumbnail(l, index, t) ==
    [id |-> 0, listing |-> l, is_thumbnail |-> (index = 0), order |-> index]

(* the image row the creation loop makes of the upload at position index *)
ImageOfUpload(l, index, t) ==
    [id |-> 0, listing |-> l, is_thumbnail |-> (index = ThumbnailIndex(t)), order |-> index]

(* for index, image_file in enumerate(image_files): JobImage.objects.create(...) *)
RECURSIVE CreateImages(_, _, _, _, _)
CreateImages(imgs, l, index, k, t) ==
    IF index >= k THEN imgs
    ELSE CreateImages(WriteImage(ClearSiblings(imgs, ImageOfUpload(l, index, t)),
                                 ImageOfUpload(l, index, t)),
                      l, index + 1, k, t)

(* int(thumbnail_index) raises ValueError: in create_job_post inside the loop
   (only reached with an image), in create_property_post before the loop *)
ThumbParseFails(kind, k, t) ==
    ~t.numeric /\ (kind = "property" \/ k > 0)

(* a block that keeps its writes even when it raises *)
Atomic_NoRollback(before, after, committed) == after

(* with transaction.atomic(): the writes of the block are kept when it ends
   normally and undone when it raises *)
Atomic(before, after, committed) == IF committed THEN after ELSE before

(* create_job_post / create_property_post.  The rows are written inside
   transaction.atomic() and touch only the new listing, so the handler is one
   step: the gate, the required fields, then the listing row and one image row
   per upload; when a step raises (the upload of image j, a thumbnail_index
   that is no number) the block is left with what was written so far and the
   transaction decides what stays.  The payload is drawn where the handler
   reads it. *)
CreateListing(p) ==
    /\ Begin(p)
    /\ \E u \in Posters, kind \in Kinds :
         LET gate == IF kind = "job" THEN GateCreateJob(u) ELSE GateCreateProperty(u)
             req == [pc |-> "run", op |-> "create_" \o kind, user |-> u, flags |-> Flags(u)]
             id == NewListingId
         IN  IF gate # "allowed"
             THEN /\ procs' = [procs EXCEPT ![p] = Done(req, gate)]
                  /\ UNCHANGED <<listings, images>>
             ELSE \E fields \in {"ok", "missing"} :
                  IF fields = "missing"
                  THEN /\ procs' = [procs EXCEPT ![p] =
                              Done(req, "field_required") @@ [wellformed |-> FALSE]]
                       /\ UNCHANGED <<listings, images>>
                  ELSE \E k \in 0..MaxImages, t \in ThumbInputs, j \in 0..MaxImages :
                       LET note == IF j < k \/ ThumbParseFails(kind, k, t)
                                   THEN "none" ELSE SendNotification(hist.mail)
                           raises == j < k \/ ThumbParseFails(kind, k, t) \/ note = "raised"
                           stored == IF ThumbParseFails(kind, k, t) THEN 0 ELSE j
                           inserted == [listings EXCEPT ![id] = NewListing(kind, u)]
                           saved == CreateImages(images, id, 0, stored, t)
                           obs == [wellformed |-> (j = k /\ t.numeric), notified |-> note,
                                   listings0 |-> Cardinality({l \in ListingIds : Exists(l)}),
                                   images0 |-> Cardinality(images)]
                       IN  /\ j <= k
                           /\ id \in ListingIds
                           /\ listings' = Atomic(listings, inserted, ~raises)
                           /\ images' = Atomic(images, saved, ~raises)
                           /\ procs' = [procs EXCEPT ![p] =
                                  IF raises
                                  THEN Done(req, "server_error") @@ obs @@ [stored |-> stored]
                                  ELSE Done(req, "created") @@ obs @@
                                       [listing |-> id, k |-> k, t |-> t]]
    /\ UNCHANGED <<users, identity, inters, otps, tokens, now>>

(* JobImage.save / PropertyImage.save called on its own, as two statements:
   first the update that clears the siblings' flag ... *)
ImageSaveClear(p) ==
    /\ Begin(p)
    /\ \E l \in ListingIds, thumb \in BOOLEAN, old \in {0} \cup {r.id : r \in images} :
         LET row == IF old = 0
                    THEN [id |-> 0, listing |-> l, is_thumbnail |-> thumb,
                          order |-> Cardinality({r \in images : r.listing = l})]
                    ELSE [(CHOOSE r \in images : r.id = old) EXCEPT !.is_thumbnail = thumb]
         IN  /\ Exists(l)
             /\ row.listing = l
             /\ old = 0 => Cardinality(images) < MaxImages
             /\ images' = ClearSiblings(images, row)
             /\ procs' = [procs EXCEPT ![p] = [pc |-> "write", op |-> "image_save", row |-> row]]
    /\ UNCHANGED <<users, identity, listings, inters, otps, tokens, now>>

(* ... then the insert or update of the row itself *)
ImageSaveWrite(p) ==
    /\ procs[p].pc = "write"
    /\ images' = WriteImage(images, procs[p].row)
    /\ procs' = [procs EXCEPT ![p] = [pc |-> "done", op |-> "image_save", res |-> "saved"]]
    /\ UNCHANGED <<users, identity, listings, inters, otps, tokens, now, hist>>

----------------------------------------------------------------------------
(* Interactions: job applications and property inquiries *)

Actors == {"alice", "bob"}
(* the payload: complete; a required field missing; a cv_file whose upload to
   storage raises (apply only) *)
Forms == {"ok", "missing", "upload_fails"}

(* the listing kind an endpoint works on: apply_to_job reads the Job table,
   create_property_inquiry the Property table *)
KindOf(op) == IF op = "apply" THEN "job" ELSE "property"

(* Job.objects.get(id=job_id, status='approved') finds a row *)
Open(l, kind) ==
    Exists(l) /\ listings[l].kind = kind /\ listings[l].status = "approved"

(* JobApplication.objects.filter(job=job, applicant=request.user).exists() *)
Submitted(l, u) == \E r \in inters : r.listing = l /\ r.actor = u

RowsOf(l) == Cardinality({r \in inters : r.listing = l})
CountOf(l) == IF Exists(l) THEN listings[l].count ELSE 0

StatusOf(l) == IF Exists(l) THEN listings[l].status ELSE "none"

(* the response of a ledger request, with the counter and the number of ledger
   rows of its listing as they were when it began and as it leaves them, and
   the status of the listing when the request began and when it inserted *)
Answer(req, res, count1, rows1) ==
    [pc |-> "done", op |-> req.op, user |-> req.user, listing |-> req.listing,
     flags |-> req.flags, form |-> req.form, res |-> res, had0 |-> req.had0,
     status0 |-> req.status0, status_ins |-> req.status_ins, mine |-> req.mine,
     clash |-> req.clash,
     count0 |-> req.count0, rows0 |-> req.rows0, count1 |-> count1, rows1 |-> rows1]

(* apply_to_job / create_property_inquiry up to the listing lookup: the gate,
   then the get of the approved listing into the handler's local object *)
InteractBegin(p) ==
    /\ Begin(p)
    /\ \E u \in Actors, op \in {"apply", "inquire"}, l \in ListingArgs :
         LET gate == IF op = "apply" THEN GateApply(u) ELSE GateInquire(u)
             req == [pc |-> "check", op |-> op, user |-> u, listing |-> l,
                     flags |-> Flags(u), form |-> "unread", had0 |-> Submitted(l, u), clash |-> FALSE, mine |-> TRUE,
                     status0 |-> StatusOf(l), status_ins |-> "none",
                     count0 |-> CountOf(l), rows0 |-> RowsOf(l), local |-> CountOf(l)]
         IN  procs' = [procs EXCEPT ![p] =
                 IF gate # "allowed" THEN Answer(req, gate, CountOf(l), RowsOf(l))
                 ELSE IF ~Open(l, KindOf(op)) THEN Answer(req, "not_found", CountOf(l), RowsOf(l))
                 ELSE req]
    /\ UNCHANGED <<users, identity, listings, images, inters, otps, tokens, now>>

(* the handler without its duplicate check *)
InteractCheck_NoDuplicateCheck(p) ==
    /\ procs[p].pc = "check"
    /\ \E form \in Forms :
       LET req == [procs[p] EXCEPT !.form = form]
           l == req.listing
       IN  /\ form = "upload_fails" => req.op = "apply"
           /\ procs' = [procs EXCEPT ![p] =
               IF req.form = "missing" THEN Answer(req, "field_required", CountOf(l), RowsOf(l))
               ELSE IF req.form = "upload_fails"
               THEN Answer(req, "server_error", CountOf(l), RowsOf(l))
               ELSE [req EXCEPT !.pc = "insert"]]
    /\ UNCHANGED <<users, identity, listings, images, inters, otps, tokens, now, hist>>

(* ... the required fields, the upload of the CV, then the duplicate check *)
InteractCheck(p) ==
    /\ procs[p].pc = "check"
    /\ \E form \in Forms :
       LET req == [procs[p] EXCEPT !.form = form]
           l == req.listing
       IN  /\ form = "upload_fails" => req.op = "apply"
           /\ procs' = [procs EXCEPT ![p] =
               IF req.form = "missing" THEN Answer(req, "field_required", CountOf(l), RowsOf(l))
               ELSE IF req.form = "upload_fails"
               THEN Answer(req, "server_error", CountOf(l), RowsOf(l))
               ELSE IF Submitted(l, req.user)
               THEN Answer([req EXCEPT !.clash = TRUE], "duplicate", CountOf(l), RowsOf(l))
               ELSE [req EXCEPT !.pc = "insert"]]
    /\ UNCHANGED <<users, identity, listings, images, inters, otps, tokens, now, hist>>

(* ... JobApplication.objects.create(...): the insert raises on a second row
   of the pair (unique_together) and on a listing that was deleted meanwhile
   (the foreign key); the handler's except Exception answers 500 *)
InteractInsert(p) ==
    /\ procs[p].pc = "insert"
    /\ LET req == procs[p]
           l == req.listing
       IN  IF ~Exists(l)
           THEN /\ procs' = [procs EXCEPT ![p] =
                       Answer(req, "server_error", CountOf(l), RowsOf(l))]
                /\ UNCHANGED <<inters, hist>>
           ELSE IF Submitted(l, req.user)
           THEN /\ procs' = [procs EXCEPT ![p] =
                       Answer([req EXCEPT !.clash = TRUE], "server_error",
                              CountOf(l), RowsOf(l))]
                /\ UNCHANGED <<inters, hist>>
           ELSE /\ inters' = inters \cup
                       {[id |-> hist.ninter + 1, listing |-> l, actor |-> req.user,
                         status |-> "pending"]}
                /\ hist' = [hist EXCEPT !.ninter = @ + 1]
                /\ procs' = [procs EXCEPT ![p] =
                       [req EXCEPT !.pc = "count", !.status_ins = StatusOf(l)]]
    /\ UNCHANGED <<users, identity, listings, images, otps, tokens, now>>

(* the handler answering 201 without the counter write *)
InteractCount_NoWrite(p) ==
    /\ procs[p].pc = "count"
    /\ LET req == procs[p]
           l == req.listing
       IN  /\ procs' = [procs EXCEPT ![p] = Answer(req, "created", CountOf(l), RowsOf(l))]
           /\ hist' = [hist EXCEPT !.made[l] = @ + 1]
    /\ UNCHANGED <<users, identity, listings, images, inters, otps, tokens, now>>

(* ... job.increment_applicant_count(): the local object's counter plus one is
   written with save(update_fields=['applicant_count']), which raises
   DatabaseError when the row was deleted meanwhile; then the 201 *)
InteractCount(p) ==
    /\ procs[p].pc = "count"
    /\ LET req == procs[p]
           l == req.listing
           note == SendNotification(hist.mail)
       IN  IF ~Exists(l)
           THEN /\ procs' = [procs EXCEPT ![p] =
                       Answer(req, "server_error", CountOf(l), RowsOf(l)) @@
                       [notified |-> "none"]]
                /\ UNCHANGED <<listings, hist>>
           ELSE /\ listings' = [listings EXCEPT ![l].count = req.local + 1]
                /\ procs' = [procs EXCEPT ![p] =
                       Answer(req, IF note = "raised" THEN "server_error" ELSE "created",
                              req.local + 1, RowsOf(l)) @@ [notified |-> note]]
                /\ hist' = [hist EXCEPT !.made[l] = @ + 1]
    /\ UNCHANGED <<users, identity, images, inters, otps, tokens, now>>

(* delete_application without the applicant check *)
DeleteBegin_NoApplicantCheck(p) ==
    /\ Begin(p)
    /\ \E u \in Actors, a \in {r.id : r \in inters} \cup {hist.ninter + 1} :
         LET hit == {r \in inters : r.id = a}
             row == CHOOSE r \in hit : TRUE
             l == IF hit = {} THEN 0 ELSE row.listing
             req == [pc |-> "decrement", op |-> "delete", user |-> u, listing |-> l,
                     flags |-> Flags(u), form |-> "ok", row |-> a, had0 |-> (hit # {}), clash |-> FALSE,
                     mine |-> (hit # {} /\ row.actor = u),
                     status0 |-> StatusOf(l), status_ins |-> "none",
                     count0 |-> CountOf(l), rows0 |-> RowsOf(l), local |-> CountOf(l)]
         IN  procs' = [procs EXCEPT ![p] =
                 IF hit = {} THEN Answer(req, "not_found", 0, 0)
                 ELSE req]
    /\ UNCHANGED <<users, identity, listings, images, inters, otps, tokens, now>>

(* delete_application up to the reads: the application row, the applicant
   check, and application.job into the handler's local object *)
DeleteBegin(p) ==
    /\ Begin(p)
    /\ \E u \in Actors, a \in {r.id : r \in inters} \cup {hist.ninter + 1} :
         LET hit == {r \in inters : r.id = a}
             row == CHOOSE r \in hit : TRUE
             l == IF hit = {} THEN 0 ELSE row.listing
             req == [pc |-> "decrement", op |-> "delete", user |-> u, listing |-> l,
                     flags |-> Flags(u), form |-> "ok", row |-> a, had0 |-> (hit # {}), clash |-> FALSE,
                     mine |-> (hit # {} /\ row.actor = u),
                     status0 |-> StatusOf(l), status_ins |-> "none",
                     count0 |-> CountOf(l), rows0 |-> RowsOf(l), local |-> CountOf(l)]
         IN  procs' = [procs EXCEPT ![p] =
                 IF hit = {} THEN Answer(req, "not_found", 0, 0)
                 ELSE IF row.actor # u THEN Answer(req, "forbidden", CountOf(l), RowsOf(l))
                 ELSE req]
    /\ UNCHANGED <<users, identity, listings, images, inters, otps, tokens, now>>

(* ... if job.applicant_count > 0: job.applicant_count -= 1; job.save(...) *)
DeleteDecrement(p) ==
    /\ procs[p].pc = "decrement"
    /\ LET req == procs[p]
       IN  /\ listings' = IF req.local > 0
                          THEN [listings EXCEPT ![req.listing].count = req.local - 1]
                          ELSE listings
           /\ procs' = [procs EXCEPT ![p] = [req EXCEPT !.pc = "remove"]]
    /\ UNCHANGED <<users, identity, images, inters, otps, tokens, now, hist>>

(* ... application.delete(); then the 200 *)
DeleteRemove(p) ==
    /\ procs[p].pc = "remove"
    /\ LET req == procs[p]
           l == req.listing
       IN  /\ inters' = {r \in inters : r.id # req.row}
           /\ procs' = [procs EXCEPT ![p] =
                  Answer(req, "deleted", CountOf(l),
                         Cardinality({r \in inters : r.listing = l /\ r.id # req.row}))]
           /\ hist' = [hist EXCEPT !.gone[l] = @ + 1]
    /\ UNCHANGED <<users, identity, listings, images, otps, tokens, now>>

----------------------------------------------------------------------------
(* Sub-status of an Interaction *)

(* JobApplication.STATUS_CHOICES *)
ApplicationStatuses == {"pending", "reviewed", "shortlisted", "rejected", "accepted"}

(* PropertyInquiry.STATUS_CHOICES, and the list update_inquiry_status checks *)
InquiryStatuses == {"pending", "contacted", "interested", "not_interested", "deal_closed"}

(* request.data.get('status'): a value of one enum, of the other, of neither,
   or none at all *)
StatusInputs == {"reviewed", "contacted", "bogus", "null"}

UpdateOps == {"update_application", "update_inquiry"}
TableOf(op) == IF op = "update_application" THEN "job" ELSE "property"

(* update_application_status / update_inquiry_status without the owner check *)
UpdateBegin_NoOwnerCheck(p) ==
    /\ Begin(p)
    /\ \E u \in Actors, op \in UpdateOps, v \in StatusInputs,
          a \in {r.id : r \in inters} \cup {hist.ninter + 1} :
         LET hit == {r \in inters : r.id = a /\ listings[r.listing].kind = TableOf(op)}
             row == CHOOSE r \in hit : TRUE
             req == [pc |-> "save", op |-> op, user |-> u, row |-> a, value |-> v,
                     had0 |-> (hit # {}),
                     owner |-> (hit # {} /\ listings[row.listing].posted_by = u),
                     status0 |-> IF hit = {} THEN "none" ELSE row.status]
         IN  procs' = [procs EXCEPT ![p] =
                 IF hit = {}
                 THEN Done(req, IF op = "update_application" THEN "failed" ELSE "not_found")
                 ELSE IF op = "update_inquiry" /\ v \notin InquiryStatuses
                 THEN Done(req, "invalid_status")
                 ELSE req @@ [local |-> [row EXCEPT !.status = v]]]
    /\ UNCHANGED <<users, identity, listings, images, inters, otps, tokens, now>>

(* update_application_status / update_inquiry_status up to the save: the get of
   the row (a miss is caught by the bare except of the first, answered 404 by
   the second), the owner check, and in update_inquiry_status the check of the
   value; the new status is set on the handler's local object *)
UpdateBegin(p) ==
    /\ Begin(p)
    /\ \E u \in Actors, op \in UpdateOps, v \in StatusInputs,
          a \in {r.id : r \in inters} \cup {hist.ninter + 1} :
         LET hit == {r \in inters : r.id = a /\ listings[r.listing].kind = TableOf(op)}
             row == CHOOSE r \in hit : TRUE
             req == [pc |-> "save", op |-> op, user |-> u, row |-> a, value |-> v,
                     had0 |-> (hit # {}),
                     owner |-> (hit # {} /\ listings[row.listing].posted_by = u),
                     status0 |-> IF hit = {} THEN "none" ELSE row.status]
         IN  procs' = [procs EXCEPT ![p] =
                 IF hit = {}
                 THEN Done(req, IF op = "update_application" THEN "failed" ELSE "not_found")
                 ELSE IF listings[row.listing].posted_by # u THEN Done(req, "forbidden")
                 ELSE IF op = "update_inquiry" /\ v \notin InquiryStatuses
                 THEN Done(req, "invalid_status")
                 ELSE req @@ [local |-> [row EXCEPT !.status = v]]]
    /\ UNCHANGED <<users, identity, listings, images, inters, otps, tokens, now>>

(* ... application.save(): the row is written from the local object, whatever
   the value (choices are not checked by save); no value at all violates NOT
   NULL, which the handler's except answers 400 *)
UpdateSave(p) ==
    /\ procs[p].pc = "save"
    /\ procs[p].op \in UpdateOps
    /\ LET req == procs[p]
           answer == [pc |-> "done", op |-> req.op, user |-> req.user, row |-> req.row,
                      value |-> req.value, had0 |-> req.had0, owner |-> req.owner,
                      status0 |-> req.status0]
       IN  IF req.value = "null"
           THEN /\ procs' = [procs EXCEPT ![p] = answer @@ [res |-> "failed"]]
                /\ UNCHANGED inters
           ELSE LET note == IF req.op = "update_inquiry" /\ req.status0 # req.value
                            THEN SendNotification(hist.mail) ELSE "none"
                IN  /\ inters' = {r \in inters : r.id # req.row} \cup {req.local}
                    /\ procs' = [procs EXCEPT ![p] = answer @@
                           [res |-> IF note = "raised" THEN "server_error" ELSE "ok",
                            notified |-> note]]
    /\ UNCHANGED <<users, identity, listings, images, otps, tokens, now, hist>>

----------------------------------------------------------------------------
(* Moderation *)

Moderators == {"admin", "alice"}
Reasons == {"", "spam"}

(* approve and reject stamping the approver and not the date *)
Decided_NoDate(row, decision, u, reason) ==
    IF decision = "approve"
    THEN [row EXCEPT !.status = "approved", !.approved_by = u]
    ELSE [row EXCEPT !.status = "rejected", !.approved_by = u,
                     !.rejection_reason = reason]

(* approve and reject setting the status only *)
Decided_StatusOnly(row, decision, u, reason) ==
    [row EXCEPT !.status = IF decision = "approve" THEN "approved" ELSE "rejected"]

(* Job.approve / Job.reject on the handler's local object, before its save *)
Decided(row, decision, u, reason) ==
    IF decision = "approve"
    THEN [row EXCEPT !.status = "approved", !.approved_by = u, !.approval_date = <<now>>]
    ELSE [row EXCEPT !.status = "rejected", !.approved_by = u,
                     !.rejection_reason = reason, !.approval_date = <<now>>]

(* the moderation handlers without the is_staff check *)
ModerateBegin_NoStaffCheck(p) ==
    /\ Begin(p)
    /\ \E u \in Moderators, l \in ListingArgs, decision \in {"approve", "reject"},
          reason \in Reasons :
         LET req == [pc |-> "save", op |-> decision, user |-> u, listing |-> l,
                     reason |-> reason,
                     status0 |-> IF Exists(l) THEN listings[l].status ELSE "none"]
             target == IF decision = "approve" THEN "approved" ELSE "rejected"
         IN  /\ decision = "approve" => reason = ""
             /\ procs' = [procs EXCEPT ![p] =
                   IF ~Exists(l) THEN Done(req, "not_found")
                   ELSE IF listings[l].status = target THEN Done(req, "invalid_state")
                   ELSE req @@ [local |-> Decided(listings[l], decision, u, reason)]]
    /\ UNCHANGED <<users, identity, listings, images, inters, otps, tokens, now>>

(* the moderation handlers without the check of the status the listing has *)
ModerateBegin_NoStateCheck(p) ==
    /\ Begin(p)
    /\ \E u \in Moderators, l \in ListingArgs, decision \in {"approve", "reject"},
          reason \in Reasons :
         LET req == [pc |-> "save", op |-> decision, user |-> u, listing |-> l,
                     reason |-> reason,
                     status0 |-> IF Exists(l) THEN listings[l].status ELSE "none"]
         IN  /\ decision = "approve" => reason = ""
             /\ procs' = [procs EXCEPT ![p] =
                   IF ~users[u].is_staff THEN Done(req, "forbidden")
                   ELSE IF ~Exists(l) THEN Done(req, "not_found")
                   ELSE req @@ [local |-> Decided(listings[l], decision, u, reason)]]
    /\ UNCHANGED <<users, identity, listings, images, inters, otps, tokens, now>>

(* approve_job / reject_job / approve_property / reject_property up to the
   status check: staff only, the listing read into the local object, and the
   refusal when it already has the status asked for *)
ModerateBegin(p) ==
    /\ Begin(p)
    /\ \E u \in Moderators, l \in ListingArgs, decision \in {"approve", "reject"},
          reason \in Reasons :
         LET req == [pc |-> "save", op |-> decision, user |-> u, listing |-> l,
                     reason |-> reason,
                     status0 |-> IF Exists(l) THEN listings[l].status ELSE "none"]
             target == IF decision = "approve" THEN "approved" ELSE "rejected"
         IN  /\ decision = "approve" => reason = ""
             /\ procs' = [procs EXCEPT ![p] =
                   IF ~users[u].is_staff THEN Done(req, "forbidden")
                   ELSE IF ~Exists(l) THEN Done(req, "not_found")
                   ELSE IF listings[l].status = target THEN Done(req, "invalid_state")
                   ELSE req @@ [local |-> Decided(listings[l], decision, u, reason)]]
    /\ UNCHANGED <<users, identity, listings, images, inters, otps, tokens, now>>

(* ... self.save(): every column of the row is written from the local object *)
ModerateSave(p) ==
    /\ procs[p].pc = "save"
    /\ procs[p].op \in {"approve", "reject"}
    /\ LET req == procs[p]
           note == SendNotification(hist.mail)
       IN  /\ listings' = [listings EXCEPT ![req.listing] = req.local]
           /\ procs' = [procs EXCEPT ![p] =
                  [pc |-> "done", op |-> req.op, user |-> req.user, listing |-> req.listing,
                   reason |-> req.reason, status0 |-> req.status0, notified |-> note,
                   res |-> IF note = "raised" THEN "server_error" ELSE "ok"]]
    /\ UNCHANGED <<users, identity, images, inters, otps, tokens, now, hist>>

(* time passes between requests *)
Tick ==
    /\ \E t \in Instants : t > now /\ now' = t
    /\ UNCHANGED <<users, identity, listings, images, inters, otps, tokens, procs, hist>>

(* the response is delivered and the slot is free again *)
Return(p) ==
    /\ procs[p].pc = "done"
    /\ procs' = [procs EXCEPT ![p] = Idle]
    /\ UNCHANGED <<users, identity, listings, images, inters, otps, tokens, now, hist>>

----------------------------------------------------------------------------
(* Initial tables *)

InitUsers ==
    [u \in UserIds |->
        [email |-> u \o "@x.ng", email_verified |-> TRUE,
         is_staff |-> (u = "admin"), password |-> "pw0"]]

InitHist ==
    [issued |-> {}, asked |-> {}, spent |-> {}, given |-> {}, voided |-> {}, old |-> {}, nreq |-> 0, seq |-> TRUE, over |-> {}, ninter |-> 0,
     made |-> [l \in ListingIds |-> 0],
     seen |-> [l \in ListingIds |-> 0],
     mail |-> TRUE, gone |-> [l \in ListingIds |-> 0], revoked |-> {}]

(* The password reset flow, one request at a time *)
InitReset ==
    /\ users = InitUsers
    /\ identity = [u \in UserIds |-> IdentityRow("verified")]
    /\ listings = [l \in ListingIds |-> NoRow]
    /\ images = {}
    /\ inters = {}
    /\ otps = {}
    /\ tokens = {}
    /\ now = 0
    /\ procs = [p \in Procs |-> Idle]
    /\ hist = InitHist

NextReset ==
    \/ RequestPasswordReset("p1")
    \/ VerifyOtp("p1")
    \/ ResetPassword("p1")
    \/ Return("p1")
    \/ Tick

SpecReset == InitReset /\ [][NextReset]_vars

(* Image saves: creation requests and JobImage.save / PropertyImage.save calls
   of two concurrent requests on the listings that exist *)
InitImages ==
    /\ users = InitUsers
    /\ identity = [u \in UserIds |-> IdentityRow("verified")]
    /\ \E kind \in Kinds :
         listings = [l \in ListingIds |-> IF l = 1 THEN NewListing(kind, "bob") ELSE NoRow]
    /\ images = {}
    /\ inters = {}
    /\ otps = {}
    /\ tokens = {}
    /\ now = 0
    /\ procs = [p \in Procs |-> Idle]
    /\ hist = InitHist

NextImages ==
    \/ CreateListing("p1")
    \/ \E p \in Procs : ImageSaveClear(p)
    \/ \E p \in Procs : ImageSaveWrite(p)

SpecImages == InitImages /\ [][NextImages]_vars

(* a listing as the moderation of an administrator at time 0 left it *)
Moderated(kind, u, decision) ==
    IF decision = "none" THEN NewListing(kind, u)
    ELSE [NewListing(kind, u) EXCEPT
             !.status = IF decision = "approve" THEN "approved" ELSE "rejected",
             !.approved_by = "admin", !.approval_date = <<0>>,
             !.rejection_reason = IF decision = "approve" THEN "null" ELSE ""]

(* The gate: one request at a time by a user whose email and identity are in
   any of their states, on an approved listing of bob's *)
InitGate ==
    /\ \E ev \in BOOLEAN, idv \in {"none", "unverified", "verified"} :
         /\ users = [InitUsers EXCEPT !["alice"].email_verified = ev]
         /\ identity = [u \in UserIds |->
                            IdentityRow(IF u = "alice" THEN idv ELSE "verified")]
    /\ \E kind \in Kinds :
         listings = [l \in ListingIds |->
                        IF l = 1 THEN Moderated(kind, "bob", "approve") ELSE NoRow]
    /\ images = {}
    /\ inters = {}
    /\ otps = {}
    /\ tokens = {}
    /\ now = 0
    /\ procs = [p \in Procs |-> Idle]
    /\ hist = InitHist

NextGate ==
    \/ CreateListing("p1")
    \/ InteractBegin("p1")
    \/ InteractCheck("p1")
    \/ InteractInsert("p1")
    \/ InteractCount("p1")

SpecGate == InitGate /\ [][NextGate]_vars

(* The ledger and moderation: concurrent requests of verified users on one
   listing, pending or approved at the start, Ttl minutes after that decision *)
Init ==
    /\ users = InitUsers
    /\ identity = [u \in UserIds |-> IdentityRow("verified")]
    /\ \E kind \in Kinds, decision \in {"none", "approve"} :
         listings = [l \in ListingIds |->
                        IF l = 1 THEN Moderated(kind, "bob", decision) ELSE NoRow]
    /\ images = {}
    /\ inters = {}
    /\ otps = {}
    /\ tokens = {}
    /\ now = Ttl
    /\ procs = [p \in Procs |-> Idle]
    /\ hist = InitHist

Next ==
    \E p \in Procs :
        \/ InteractBegin(p)
        \/ InteractCheck(p)
        \/ InteractInsert(p)
        \/ InteractCount(p)
        \/ DeleteBegin(p)
        \/ DeleteDecrement(p)
        \/ DeleteRemove(p)
        \/ ModerateBegin(p)
        \/ ModerateSave(p)

Spec == Init /\ [][Next]_vars

(* Detail pages.  get_job_detail reads the row; get_property_detail reads the
   row and calls increment_view_count on the object it read *)

DetailOps == {"job_detail", "property_detail"}

(* Job.objects.get(id=job_id) / Property.objects.get(id=property_id): the row
   of that table with that id, whatever its status *)
DetailRow(op, l) ==
    IF Exists(l) /\ listings[l].kind = (IF op = "job_detail" THEN "job" ELSE "property")
    THEN {listings[l]} ELSE {}

(* get_job_detail, and get_property_detail up to the get *)
GetDetail(p) ==
    /\ Begin(p)
    /\ \E op \in DetailOps, l \in ListingArgs :
         LET req == [pc |-> "incr", op |-> op, listing |-> l,
                     views0 |-> IF Exists(l) THEN listings[l].view_count ELSE 0]
         IN  procs' = [procs EXCEPT ![p] =
                 IF DetailRow(op, l) = {} THEN Done(req, "not_found")
                 ELSE IF op = "job_detail" THEN Done(req, "ok")
                 ELSE req @@ [local |-> listings[l].view_count]]
    /\ UNCHANGED <<users, identity, listings, images, inters, otps, tokens, now>>

(* Property.increment_view_count: self.view_count += 1 on the object that was
   read, then save(update_fields=['view_count']) *)
IncrementViewCount(p) ==
    /\ procs[p].pc = "incr"
    /\ LET req == procs[p]
           l == req.listing
       IN  /\ listings' = [listings EXCEPT ![l].view_count = req.local + 1]
           /\ hist' = [hist EXCEPT !.seen[l] = @ + 1]
           /\ procs' = [procs EXCEPT ![p] =
                  [pc |-> "done", op |-> req.op, listing |-> l, res |-> "ok",
                   views0 |-> req.views0]]
    /\ UNCHANGED <<users, identity, images, inters, otps, tokens, now>>

ListOps == {"list_jobs", "list_properties"}

(* the rows of the table of the endpoint that have the given status and are active *)
WithStatus(op, st) ==
    {l \in ListingIds :
        /\ Exists(l)
        /\ listings[l].kind = (IF op = "list_jobs" THEN "job" ELSE "property")
        /\ listings[l].status = st
        /\ listings[l].is_active}

(* Job.objects.filter(status='pending', is_active=True) of list_jobs and
   Property.objects.filter(status='pending', is_active=True) of list_properties *)
ListFilter(op) == WithStatus(op, "pending")

(* list_jobs / list_properties: the rows the filter selects are returned *)
ListPublic(p) ==
    /\ Begin(p)
    /\ \E op \in ListOps :
         procs' = [procs EXCEPT ![p] =
             [pc |-> "done", op |-> op, res |-> "ok",
              result |-> ListFilter(op), approved |-> WithStatus(op, "approved")]]
    /\ UNCHANGED <<users, identity, listings, images, inters, otps, tokens, now>>

(* The public read endpoints on one listing of bob's, of either kind and in
   any state of moderation, two requests at a time *)
InitViews ==
    /\ users = InitUsers
    /\ identity = [u \in UserIds |-> IdentityRow("verified")]
    /\ \E kind \in Kinds, decision \in {"none", "approve", "reject"} :
         listings = [l \in ListingIds |->
                        IF l = 1 THEN Moderated(kind, "bob", decision) ELSE NoRow]
    /\ images = {}
    /\ inters = {}
    /\ otps = {}
    /\ tokens = {}
    /\ now = Ttl
    /\ procs = [p \in Procs |-> Idle]
    /\ hist = InitHist

NextViews ==
    \E p \in Procs :
        \/ ListPublic(p)
        \/ GetDetail(p)
        \/ IncrementViewCount(p)

SpecViews == InitViews /\ [][NextViews]_vars

(* Sub-status updates: concurrent requests on the one application or inquiry
   that alice has made on bob's approved listing *)
InitStatus ==
    /\ users = InitUsers
    /\ identity = [u \in UserIds |-> IdentityRow("verified")]
    /\ \E kind \in Kinds :
         listings = [l \in ListingIds |->
                        IF l = 1
                        THEN [Moderated(kind, "bob", "approve") EXCEPT !.count = 1]
                        ELSE NoRow]
    /\ images = {}
    /\ inters = {[id |-> 1, listing |-> 1, actor |-> "alice", status |-> "pending"]}
    /\ otps = {}
    /\ tokens = {}
    /\ now = Ttl
    /\ procs = [p \in Procs |-> Idle]
    /\ hist = [InitHist EXCEPT !.ninter = 1, !.made[1] = 1]

NextStatus ==
    \E p \in Procs :
        \/ UpdateBegin(p)
        \/ UpdateSave(p)

SpecStatus == InitStatus /\ [][NextStatus]_vars

(* Identity submission, api/views.py:32-77 *)

Documents == {"doc1", "doc2"}
Submitters == {"alice", "bob", "ghost"}

(* serializer.validated_data of IdentityVerificationSerializer: the document
   reference and the personal fields of the submission *)
ValidatedIdentity(doc) == [document |-> doc]

(* an upsert that deletes the row and creates a new one *)
UpdateOrCreate_Recreate(row, defaults) ==
    [f \in DOMAIN row |->
        IF f \in DOMAIN defaults THEN defaults[f] ELSE "unverified"]

(* IdentityVerification.objects.update_or_create(user=user, defaults=...): the
   row of the user gets the values of defaults and keeps its other columns; a
   new row gets the values of defaults and the model's default verified=False *)
UpdateOrCreate(row, defaults) ==
    [f \in DOMAIN row |->
        IF f \in DOMAIN defaults THEN defaults[f]
        ELSE IF row.state = "none" THEN "unverified"
        ELSE row[f]]

(* verify_identity: the user, the file, the upload, the serializer, the upsert *)
VerifyIdentity(p) ==
    /\ Begin(p)
    /\ \E u \in Submitters, file \in {"ok", "missing", "upload_fails"} :
         LET req == [pc |-> "run", op |-> "verify_identity", user |-> u,
                     state0 |-> IF u \in UserIds THEN identity[u].state ELSE "none"]
         IN  IF u \notin UserIds \/ file # "ok"
             THEN /\ procs' = [procs EXCEPT ![p] =
                         Done(req, IF u \notin UserIds THEN "not_found"
                                   ELSE IF file = "missing" THEN "file_required"
                                   ELSE "server_error")]
                  /\ UNCHANGED identity
             ELSE \E valid \in BOOLEAN, doc \in Documents :
                  IF ~valid
                  THEN /\ procs' = [procs EXCEPT ![p] = Done(req, "invalid_data")]
                       /\ UNCHANGED identity
                  ELSE /\ identity' = [identity EXCEPT
                              ![u] = UpdateOrCreate(@, ValidatedIdentity(doc))]
                       /\ procs' = [procs EXCEPT ![p] =
                              Done(req, IF identity[u].state = "none"
                                        THEN "submitted" ELSE "updated") @@ [doc |-> doc]]
    /\ UNCHANGED <<users, listings, images, inters, otps, tokens, now>>

(* Identity submissions, one at a time, of users whose record is absent,
   unverified or verified *)
InitIdentity ==
    /\ users = InitUsers
    /\ \E sa, sb \in {"none", "unverified", "verified"} :
         identity = [u \in UserIds |->
                        IdentityRow(IF u = "alice" THEN sa
                                    ELSE IF u = "bob" THEN sb ELSE "verified")]
    /\ listings = [l \in ListingIds |-> NoRow]
    /\ images = {}
    /\ inters = {}
    /\ otps = {}
    /\ tokens = {}
    /\ now = Ttl
    /\ procs = [p \in Procs |-> Idle]
    /\ hist = InitHist

NextIdentity == VerifyIdentity("p1")

SpecIdentity == InitIdentity /\ [][NextIdentity]_vars

----------------------------------------------------------------------------
(* Listing deletion: delete_job and delete_property *)

DeleteListingOps == {"delete_job", "delete_property"}

(* Job.objects.get(id=job_id) of delete_job, Property.objects.get(id=...) of
   delete_property: the row of the endpoint's table *)
InTable(op, l) ==
    Exists(l) /\ listings[l].kind = (IF op = "delete_job" THEN "job" ELSE "property")

(* a foreign key without on_delete=CASCADE handling: the rows stay *)
Cascade_KeepRows(rows, l) == rows

(* on_delete=models.CASCADE of JobImage.job, JobApplication.job,
   PropertyImage.property and PropertyInquiry.property: the rows that
   reference the deleted listing go with it *)
Cascade(rows, l) == {r \in rows : r.listing # l}

(* delete_job / delete_property up to the owner check *)
DeleteListingBegin(p) ==
    /\ Begin(p)
    /\ \E u \in Actors, op \in DeleteListingOps, l \in ListingArgs :
         LET req == [pc |-> "collect", op |-> op, user |-> u, listing |-> l,
                     found |-> InTable(op, l),
                     mine |-> (InTable(op, l) /\ listings[l].posted_by = u)]
         IN  procs' = [procs EXCEPT ![p] =
                 IF ~InTable(op, l) THEN Done(req, "not_found")
                 ELSE IF listings[l].posted_by # u THEN Done(req, "forbidden")
                 ELSE req]
    /\ UNCHANGED <<users, identity, listings, images, inters, otps, tokens, now>>

(* ... job.delete(), first half: the rows that reference the listing are
   looked up *)
DeleteListingCollect(p) ==
    /\ procs[p].pc = "collect" /\ procs[p].op \in DeleteListingOps
    /\ LET req == procs[p]
           l == req.listing
       IN  procs' = [procs EXCEPT ![p] =
               [req EXCEPT !.pc = "cascade"] @@
               [images0 |-> {r.id : r \in {x \in images : x.listing = l}},
                rows0 |-> {r.id : r \in {x \in inters : x.listing = l}}]]
    /\ UNCHANGED <<users, identity, listings, images, inters, otps, tokens, now, hist>>

(* ... job.delete(), second half, one transaction: the referencing rows and
   the listing are deleted.  A referencing row inserted after the lookup is
   deleted with the others (a delete by foreign key) or, when the rows are
   deleted one by one, is left and fails the foreign key: the transaction is
   rolled back and the handler's except Exception answers 500 *)
DeleteListingCascade(p) ==
    /\ procs[p].pc = "cascade" /\ procs[p].op \in DeleteListingOps
    /\ LET req == procs[p]
           l == req.listing
           late == \/ \E r \in images : r.listing = l /\ r.id \notin req.images0
                   \/ \E r \in inters : r.listing = l /\ r.id \notin req.rows0
       IN  \E byKey \in BOOLEAN :
           IF ~Exists(l)
           THEN /\ procs' = [procs EXCEPT ![p] = Done(req, "deleted") @@ [late |-> late]]
                /\ UNCHANGED <<listings, images, inters>>
           ELSE IF late /\ ~byKey
           THEN /\ procs' = [procs EXCEPT ![p] =
                       Done(req, "server_error") @@ [late |-> late]]
                /\ UNCHANGED <<listings, images, inters>>
           ELSE /\ listings' = [listings EXCEPT ![l] = NoRow]
                /\ images' = Cascade(images, l)
                /\ inters' = Cascade(inters, l)
                /\ procs' = [procs EXCEPT ![p] = Done(req, "deleted") @@ [late |-> late]]
    /\ UNCHANGED <<users, identity, otps, tokens, now, hist>>

(* Deletions and Interaction creates of two clients on bob's approved listing
   1, which has two images and may have alice's application or inquiry *)
InitDelete ==
    /\ users = InitUsers
    /\ identity = [u \in UserIds |-> IdentityRow("verified")]
    /\ images = CreateImages({}, 1, 0, 2, [given |-> FALSE, numeric |-> TRUE, val |-> 0])
    /\ otps = {}
    /\ tokens = {}
    /\ now = Ttl
    /\ procs = [p \in Procs |-> Idle]
    /\ \E kind \in Kinds, applied \in BOOLEAN :
         IF ~applied
         THEN /\ listings = [l \in ListingIds |->
                                IF l = 1 THEN Moderated(kind, "bob", "approve") ELSE NoRow]
              /\ inters = {}
              /\ hist = InitHist
         ELSE /\ listings = [l \in ListingIds |->
                                IF l = 1
                                THEN [Moderated(kind, "bob", "approve") EXCEPT !.count = 1]
                                ELSE NoRow]
              /\ inters = {[id |-> 1, listing |-> 1, actor |-> "alice", status |-> "pending"]}
              /\ hist = [InitHist EXCEPT !.ninter = 1, !.made[1] = 1]

NextDelete ==
    \E p \in Procs :
        \/ DeleteListingBegin(p)
        \/ DeleteListingCollect(p)
        \/ DeleteListingCascade(p)
        \/ InteractBegin(p)
        \/ InteractCheck(p)
        \/ InteractInsert(p)
        \/ InteractCount(p)

SpecDelete == InitDelete /\ [][NextDelete]_vars

----------------------------------------------------------------------------
(* The password reset flow statement by statement: verify_otp and
   reset_password hold no transaction and no row lock, so the statements of two
   requests interleave *)

(* .last() of the matching rows: the one with the highest primary key *)
LastOtp(rows) == CHOOSE r \in rows : \A o \in rows : o.id <= r.id

(* verify_otp up to the lookup: the user, the delete of the user's expired
   OTPs, and the row with the submitted code *)
VerifyOtpRead(p) ==
    /\ Begin(p)
    /\ \E e \in Emails, c \in Codes :
         LET req == [pc |-> "otp_issue", op |-> "verify_otp", email |-> e, code |-> c]
             found == UserByEmail(e)
             u == CHOOSE x \in found : TRUE
             live == CleanExpiredOtps(otps, u, now)
             hit == MatchOtp(live, u, c)
         IN  IF found = {}
             THEN /\ procs' = [procs EXCEPT ![p] = Done(req, "not_found")]
                  /\ UNCHANGED otps
             ELSE /\ otps' = live
                  /\ procs' = [procs EXCEPT ![p] =
                         IF hit = {}
                         THEN Done(req, "invalid_otp") @@ [user |-> u, matched |-> 0]
                         ELSE req @@ [user |-> u, matched |-> LastOtp(hit).id]]
    /\ UNCHANGED <<users, identity, listings, images, inters, tokens, now>>

(* ... PasswordResetToken.objects.create(user, token, expires_at): the insert
   raises IntegrityError on a token value in use, which the view does not catch *)
VerifyOtpIssue(p) ==
    /\ procs[p].pc = "otp_issue"
    /\ \E t \in TokenVals :
         LET req == procs[p]
         IN  IF \E k \in tokens : k.token = t
             THEN /\ procs' = [procs EXCEPT ![p] = Done(req, "server_error")]
                  /\ UNCHANGED tokens
             ELSE /\ tokens' = tokens \cup
                         {[user |-> req.user, token |-> t, expires_at |-> now + Ttl]}
                  /\ procs' = [procs EXCEPT ![p] =
                         [req EXCEPT !.pc = "otp_clear"] @@ [token |-> t]]
    /\ UNCHANGED <<users, identity, listings, images, inters, otps, now, hist>>

(* ... PasswordResetOTP.objects.filter(user=user).delete(); then the 200 with
   the token *)
VerifyOtpClear(p) ==
    /\ procs[p].pc = "otp_clear"
    /\ otps' = OtpsAfterVerify(otps, procs[p].user)
    /\ procs' = [procs EXCEPT ![p] = Done(procs[p], "otp_verified")]
    /\ UNCHANGED <<users, identity, listings, images, inters, tokens, now, hist>>

(* reset_password up to the expiry check: the serializer, the delete of all
   expired tokens, the token row, its expiry against a second reading of the
   clock (d later), and token_obj.user into the handler's local object *)
ResetRead(p) ==
    /\ Begin(p)
    /\ \E valid \in BOOLEAN, t \in TokenVals \cup {""}, d \in {0, 1} :
         LET req == [pc |-> "pw_set", op |-> "reset_password", token |-> t]
             kept == CleanExpiredTokens(tokens, now)
             hit == {r \in kept : r.token = t}
             row == CHOOSE r \in hit : TRUE
         IN  IF ~valid \/ t = ""
             THEN /\ d = 0
                  /\ procs' = [procs EXCEPT ![p] =
                         Done(req, IF ~valid THEN "invalid_data" ELSE "token_required")]
                  /\ UNCHANGED <<tokens, now>>
             ELSE /\ now + d \in Instants
                  /\ now' = now + d
                  /\ IF hit = {}
                     THEN /\ tokens' = kept
                          /\ procs' = [procs EXCEPT ![p] =
                                 Done(req, "invalid_token") @@ [read |-> FALSE]]
                     ELSE IF row.expires_at < now + d
                     THEN /\ tokens' = kept \ {row}
                          /\ procs' = [procs EXCEPT ![p] =
                                 Done(req, "token_expired") @@ [read |-> TRUE]]
                     ELSE /\ tokens' = kept
                          /\ procs' = [procs EXCEPT ![p] =
                                 req @@ [read |-> TRUE, user |-> row.user,
                                         local |-> users[row.user]]]
    /\ UNCHANGED <<users, identity, listings, images, inters, otps>>

(* ... user.set_password(password); user.save(): every column of the loaded
   user written *)
ResetSet(p) ==
    /\ procs[p].pc = "pw_set"
    /\ \E pw \in Passwords :
         LET req == procs[p]
         IN  /\ users' = [users EXCEPT ![req.user] = [req.local EXCEPT !.password = pw]]
             /\ procs' = [procs EXCEPT ![p] =
                    [req EXCEPT !.pc = "tok_clear"] @@
                    [password |-> pw, held |-> \E r \in tokens : r.token = req.token]]
    /\ UNCHANGED <<identity, listings, images, inters, otps, tokens, now, hist>>

(* ... PasswordResetToken.objects.filter(user=user).delete(); then the 200 *)
ResetClear(p) ==
    /\ procs[p].pc = "tok_clear"
    /\ tokens' = {r \in tokens : r.user # procs[p].user}
    /\ procs' = [procs EXCEPT ![p] = Done(procs[p], "password_reset")]
    /\ UNCHANGED <<users, identity, listings, images, inters, otps, now, hist>>

(* Requests of two clients on alice's reset in progress: her OTP issued at
   time 0 is outstanding, and she may hold a token of an earlier verification *)
InitRace ==
    /\ users = InitUsers
    /\ identity = [u \in UserIds |-> IdentityRow("verified")]
    /\ listings = [l \in ListingIds |-> NoRow]
    /\ images = {}
    /\ inters = {}
    /\ now = 0
    /\ procs = [p \in Procs |-> Idle]
    /\ \E holds \in BOOLEAN :
         LET n == IF holds THEN 2 ELSE 1
         IN  /\ otps = {[id |-> n, user |-> "alice", code |-> "1111", expires_at |-> Ttl]}
             /\ tokens = IF holds
                         THEN {[user |-> "alice", token |-> "10000001", expires_at |-> Ttl]}
                         ELSE {}
             /\ hist = [InitHist EXCEPT
                           !.issued = 1..n, !.asked = {"alice"},
                           !.given = IF holds THEN {<<"alice", "10000001">>} ELSE {}]

NextRace ==
    \/ \E p \in Procs :
          \/ VerifyOtpRead(p)
          \/ VerifyOtpIssue(p)
          \/ VerifyOtpClear(p)
          \/ ResetRead(p)
          \/ ResetSet(p)
          \/ ResetClear(p)
    \/ Tick

SpecRace == InitRace /\ [][NextRace]_vars

----------------------------------------------------------------------------
(* Accounts: signup, verify_email, update_profile and update_email, api/views.py *)

(* the addresses a signup or an e-mail update can carry: a new one, the same
   one in another letter case, and the one bob has *)
AccountEmails == {"carol@x.ng", "Carol@x.ng", "bob@x.ng"}
NoEmail == ""

(* the primary keys the User table hands out to new rows, in order *)
NewUserIds == <<"new1", "new2", "new3", "new4">>
Signed == DOMAIN users \ UserIds

(* the logged-in user of update_profile and update_email *)
AccountHolders == {"alice"}

(* User.objects.filter(email__iexact=email), api/views.py:95 and :493 *)
IExact(rows, e) == {u \in DOMAIN rows : Lower(rows[u].email) = Lower(e)}

(* a unique index on User.email that ignores letter case *)
EmailTaken_IgnoringCase(rows, u, e) ==
    \E v \in DOMAIN rows \ {u} : Lower(rows[v].email) = Lower(e)

(* email = models.EmailField(unique=True), accounts/models.py:12: the insert or
   update of a row with address e fails when another row has exactly e *)
EmailTaken(rows, u, e) == \E v \in DOMAIN rows \ {u} : rows[v].email = e

(* serializer.save() of SignupSerializer: the new User row, with the address as
   it was sent and the model's default email_verified=False *)
CreateUser(e) ==
    [email |-> e, email_verified |-> FALSE, is_staff |-> FALSE, password |-> "pw1"]

(* send_verification_email(user): the outcomes of the send when the mail
   service is up, and when it is down *)
SendVerificationEmail(up) == IF up THEN {"sent"} ELSE {"raised", "not_sent"}

(* a signup that reports the failed send as a server error *)
SignupAnswer_HardFailure(sent) == IF sent = "raised" THEN "server_error" ELSE "created"

(* the response of signup after the user was saved, api/views.py:135-157: 201
   with success and user_id, whether the send raised or not *)
SignupAnswer(sent) == IF sent = "raised" THEN "created_unsent" ELSE "created"

(* signup up to the duplicate check: the address is required and no user may
   have it, letter case ignored *)
SignupBegin(p) ==
    /\ Begin(p)
    /\ \E e \in AccountEmails \cup {NoEmail} :
         LET req == [pc |-> "insert", op |-> "signup", email |-> e]
         IN  procs' = [procs EXCEPT ![p] =
                 IF e = NoEmail THEN Done(req, "email_required")
                 ELSE IF IExact(users, e) # {} THEN Done(req, "exists")
                 ELSE req]
    /\ UNCHANGED <<users, identity, listings, images, inters, otps, tokens, now>>

(* signup from the serializer on: validation, the insert inside
   transaction.atomic() with IntegrityError answered 400, the verification
   e-mail, the response *)
SignupInsert(p) ==
    /\ procs[p].pc = "insert" /\ procs[p].op = "signup"
    /\ Cardinality(Signed) < Len(NewUserIds)
    /\ LET req == procs[p]
           id == NewUserIds[Cardinality(Signed) + 1]
       IN  \E valid \in BOOLEAN :
           IF ~valid
           THEN /\ procs' = [procs EXCEPT ![p] = Done(req, "invalid_data")]
                /\ UNCHANGED <<users, identity>>
           ELSE IF EmailTaken(users, id, req.email)
           THEN /\ procs' = [procs EXCEPT ![p] = Done(req, "exists")]
                /\ UNCHANGED <<users, identity>>
           ELSE \E sent \in SendVerificationEmail(hist.mail) :
                /\ users' = users @@ (id :> CreateUser(req.email))
                /\ identity' = identity @@ (id :> IdentityRow("none"))
                /\ procs' = [procs EXCEPT ![p] =
                       Done(req, SignupAnswer(sent)) @@ [user_id |-> id, sent |-> sent]]
    /\ UNCHANGED <<listings, images, inters, otps, tokens, now, hist>>

(* default_token_generator.make_token(user): the token is a hash over the
   user's primary key and address *)
MakeToken(u, e) == [user |-> u, email |-> e]

(* default_token_generator.check_token(user, token), api/views.py:176 *)
CheckToken(row, u, token) == token = MakeToken(u, row.email)

(* verify_email up to the token check: the user of the link is loaded and the
   token is checked against it *)
VerifyEmailBegin(p) ==
    /\ Begin(p)
    /\ \E uid \in (DOMAIN users \ {"bob", "admin"}) \cup {"ghost"} :
         LET req == [pc |-> "save", op |-> "verify_email", user |-> uid]
         IN  IF uid \notin DOMAIN users
             THEN procs' = [procs EXCEPT ![p] = Done(req, "invalid_link")]
             ELSE \E token \in {MakeToken(uid, users[uid].email), MakeToken(uid, "old@x.ng")} :
                  procs' = [procs EXCEPT ![p] =
                      IF CheckToken(users[uid], uid, token)
                      THEN req @@ [local |-> users[uid]]
                      ELSE Done(req, "invalid_token")]
    /\ UNCHANGED <<users, identity, listings, images, inters, otps, tokens, now>>

(* verify_email: user.email_verified = True; user.save(), every column of the
   loaded object written; the IntegrityError of the save is answered 500 *)
VerifyEmailSave(p) ==
    /\ procs[p].pc = "save" /\ procs[p].op = "verify_email"
    /\ LET req == procs[p]
       IN  IF EmailTaken(users, req.user, req.local.email)
           THEN /\ procs' = [procs EXCEPT ![p] = Done(req, "server_error")]
                /\ UNCHANGED users
           ELSE /\ users' = [users EXCEPT
                       ![req.user] = [req.local EXCEPT !.email_verified = TRUE]]
                /\ procs' = [procs EXCEPT ![p] = Done(req, "verified")]
    /\ hist' = [hist EXCEPT !.revoked = IF procs'[p].res = "verified"
                                         THEN @ \ {procs[p].user} ELSE @]
    /\ UNCHANGED <<identity, listings, images, inters, otps, tokens, now>>

(* update_profile up to the save: request.user is loaded and the profile
   fields of the request are set on it *)
UpdateProfileBegin(p) ==
    /\ Begin(p)
    /\ \E u \in AccountHolders :
         procs' = [procs EXCEPT ![p] =
             [pc |-> "save", op |-> "update_profile", user |-> u, local |-> users[u]]]
    /\ UNCHANGED <<users, identity, listings, images, inters, otps, tokens, now>>

(* update_profile: user.save(), every column of the loaded object written (the
   profile columns themselves are outside the model); the IntegrityError of the
   save is not caught *)
UpdateProfileSave(p) ==
    /\ procs[p].pc = "save" /\ procs[p].op = "update_profile"
    /\ LET req == procs[p]
       IN  IF EmailTaken(users, req.user, req.local.email)
           THEN /\ procs' = [procs EXCEPT ![p] = Done(req, "server_error")]
                /\ UNCHANGED users
           ELSE /\ users' = [users EXCEPT ![req.user] = req.local]
                /\ procs' = [procs EXCEPT ![p] = Done(req, "ok")]
    /\ UNCHANGED <<identity, listings, images, inters, otps, tokens, now, hist>>

(* update_email up to the duplicate check: the serializer, the owner check and
   the check that no other user has the address, letter case ignored *)
UpdateEmailBegin(p) ==
    /\ Begin(p)
    /\ \E u \in AccountHolders, valid \in BOOLEAN :
         LET req == [pc |-> "save", op |-> "update_email", user |-> u, local |-> users[u]]
         IN  IF ~valid
             THEN procs' = [procs EXCEPT ![p] = Done(req, "invalid_email")]
             ELSE \E target \in {"alice", "bob"} :
                  IF target # u
                  THEN procs' = [procs EXCEPT ![p] = Done(req, "forbidden")]
                  ELSE \E e \in AccountEmails :
                       procs' = [procs EXCEPT ![p] =
                           IF IExact(users, e) \ {u} # {}
                           THEN Done(req, "in_use") @@ [email |-> e]
                           ELSE req @@ [email |-> e]]
    /\ UNCHANGED <<users, identity, listings, images, inters, otps, tokens, now>>

(* update_email: user.email = new_email; user.email_verified = False;
   user.save(); then the verification e-mail inside try/except: pass.  The
   IntegrityError of the save is not caught *)
UpdateEmailSave(p) ==
    /\ procs[p].pc = "save" /\ procs[p].op = "update_email"
    /\ LET req == procs[p]
       IN  IF EmailTaken(users, req.user, req.email)
           THEN /\ procs' = [procs EXCEPT ![p] = Done(req, "server_error")]
                /\ UNCHANGED users
           ELSE /\ users' = [users EXCEPT ![req.user] =
                       [req.local EXCEPT !.email = req.email, !.email_verified = FALSE]]
                /\ procs' = [procs EXCEPT ![p] = Done(req, "ok")]
    /\ hist' = [hist EXCEPT !.revoked = IF procs'[p].res = "ok"
                                         THEN @ \cup {procs[p].user} ELSE @]
    /\ UNCHANGED <<identity, listings, images, inters, otps, tokens, now>>

(* Account requests of two clients, overlapping or not, with the mail service
   up or down for the run and alice's address verified or not *)
InitAccounts ==
    /\ \E v \in BOOLEAN : users = [InitUsers EXCEPT !["alice"].email_verified = v]
    /\ identity = [u \in UserIds |-> IdentityRow("verified")]
    /\ listings = [l \in ListingIds |-> NoRow]
    /\ images = {}
    /\ inters = {}
    /\ otps = {}
    /\ tokens = {}
    /\ now = Ttl
    /\ procs = [p \in Procs |-> Idle]
    /\ \E up \in BOOLEAN : hist = [InitHist EXCEPT !.mail = up]

NextAccounts ==
    \E p \in Procs :
        \/ SignupBegin(p)
        \/ SignupInsert(p)
        \/ VerifyEmailBegin(p)
        \/ VerifyEmailSave(p)
        \/ UpdateProfileBegin(p)
        \/ UpdateProfileSave(p)
        \/ UpdateEmailBegin(p)
        \/ UpdateEmailSave(p)

SpecAccounts == InitAccounts /\ [][NextAccounts]_vars

(* The gate after a change of address: alice, verified, changes her address,
   verifies, updates her profile and creates listings, in requests of two
   clients *)
InitRevoke ==
    /\ users = InitUsers
    /\ identity = [u \in UserIds |-> IdentityRow("verified")]
    /\ listings = [l \in ListingIds |-> NoRow]
    /\ images = {}
    /\ inters = {}
    /\ otps = {}
    /\ tokens = {}
    /\ now = Ttl
    /\ procs = [p \in Procs |-> Idle]
    /\ hist = InitHist

NextRevoke ==
    \E p \in Procs :
        \/ UpdateEmailBegin(p)
        \/ UpdateEmailSave(p)
        \/ VerifyEmailBegin(p)
        \/ VerifyEmailSave(p)
        \/ UpdateProfileBegin(p)
        \/ UpdateProfileSave(p)
        \/ CreateListing(p)

SpecRevoke == InitRevoke /\ [][NextRevoke]_vars

(* The core operations with the mail service up or down for the run: two
   requests, one after the other, on bob's listing 1, which is pending, or
   approved with alice's application or inquiry on it *)
InitNotify ==
    /\ users = InitUsers
    /\ identity = [u \in UserIds |-> IdentityRow("verified")]
    /\ images = {}
    /\ otps = {}
    /\ tokens = {}
    /\ now = Ttl
    /\ procs = [p \in Procs |-> Idle]
    /\ \E kind \in Kinds, decision \in {"none", "approve"}, up \in BOOLEAN :
         IF decision = "none"
         THEN /\ listings = [l \in ListingIds |->
                                IF l = 1 THEN Moderated(kind, "bob", decision) ELSE NoRow]
              /\ inters = {}
              /\ hist = [InitHist EXCEPT !.mail = up, !.nreq = MaxReq - 2]
         ELSE /\ listings = [l \in ListingIds |->
                                IF l = 1
                                THEN [Moderated(kind, "bob", decision) EXCEPT !.count = 1]
                                ELSE NoRow]
              /\ inters = {[id |-> 1, listing |-> 1, actor |-> "alice", status |-> "pending"]}
              /\ hist = [InitHist EXCEPT !.mail = up, !.nreq = MaxReq - 2,
                                          !.ninter = 1, !.made[1] = 1]

NextNotify ==
    \/ CreateListing("p1")
    \/ ModerateBegin("p1")
    \/ ModerateSave("p1")
    \/ InteractBegin("p1")
    \/ InteractCheck("p1")
    \/ InteractInsert("p1")
    \/ InteractCount("p1")
    \/ UpdateBegin("p1")
    \/ UpdateSave("p1")

SpecNotify == InitNotify /\ [][NextNotify]_vars

----------------------------------------------------------------------------
(* Properties of the password reset flow (checked under SpecReset) *)

VerifyDone(p) ==
    /\ procs[p].pc = "done"
    /\ procs[p].op = "verify_otp"
    /\ procs[p].res # "not_found"

(* C7: OTP round trip.  A verify_otp call with the code of an OTP of the user
   that has not expired succeeds, issues a reset token and leaves no OTP row of
   the user; a verify_otp call with a code that was already verified, with no
   request_password_reset of the user since, answers "Invalid OTP" and issues
   no token. *)
C7_OtpRoundTrip ==
    \A p \in Procs : VerifyDone(p) =>
        /\ procs[p].correct =>
              procs[p].res = "otp_verified" /\ procs[p].issued /\ procs[p].left = 0
        /\ procs[p].replay => procs[p].res = "invalid_otp" /\ ~procs[p].issued

(* C7, the case reached: a correct code was submitted and the call has ended *)
C7_Witness ==
    \E p \in Procs : VerifyDone(p) /\ procs[p].correct /\ procs[p].clash

(* the round trip for every call whose token draw is not in use *)
C7_FreshDraw ==
    \A p \in Procs : (VerifyDone(p) /\ ~procs[p].clash) =>
        /\ procs[p].correct =>
              procs[p].res = "otp_verified" /\ procs[p].issued /\ procs[p].left = 0
        /\ procs[p].replay => procs[p].res = "invalid_otp" /\ ~procs[p].issued

ResetDone(p) ==
    /\ procs[p].pc = "done"
    /\ procs[p].op = "reset_password"
    /\ procs[p].res \notin {"invalid_data", "token_required"}

(* C8: token expiry.  A reset_password call that presents a token whose
   expires_at has passed answers "Reset token expired", leaves every password
   as it was, and the token row is gone after the call. *)
C8_TokenExpiry ==
    \A p \in Procs : (ResetDone(p) /\ procs[p].expired) =>
        /\ procs[p].res = "token_expired"
        /\ ~procs[p].changed
        /\ ~procs[p].exists

(* C8, the case reached: an expired token was presented *)
C8_Witness ==
    \E p \in Procs : ResetDone(p) /\ procs[p].expired

(* what the code does with an expired token: the row is deleted by the cleanup
   that runs first, the lookup then misses, and the answer is "Invalid reset token" *)
C8_ExpiredIsInvalid ==
    \A p \in Procs : (ResetDone(p) /\ procs[p].expired) =>
        /\ procs[p].res = "invalid_token"
        /\ ~procs[p].changed
        /\ ~procs[p].exists

----------------------------------------------------------------------------
(* Properties of the images *)

Thumbnails(l) == {r \in images : r.listing = l /\ r.is_thumbnail}

(* C1: in every state, under any interleaving of listing creations and image
   saves, a Job or Property has at most one image with is_thumbnail = true *)
C1_ThumbnailExclusive ==
    \A l \in ListingIds : Cardinality(Thumbnails(l)) <= 1

(* two overlapping saves of thumbnail images of one listing have both finished
   and both rows carry the flag *)
C1_Witness ==
    /\ ~hist.seq
    /\ \A p \in Procs : procs[p].pc = "done" /\ procs[p].op = "image_save"
    /\ \E l \in ListingIds : Cardinality(Thumbnails(l)) = 2

(* what the code does keep: the flag is exclusive as long as no two requests
   have overlapped *)
C1_ExclusiveWhenSequential ==
    hist.seq => C1_ThumbnailExclusive

----------------------------------------------------------------------------
(* Properties of the ledger *)

Quiet == \A p \in Procs : Free(p)
CreateDone(p) == procs[p].pc = "done" /\ procs[p].op \in {"apply", "inquire"}
DeleteDone(p) == procs[p].pc = "done" /\ procs[p].op = "delete"

(* every (listing, actor) pair has at most one row *)
C2_AtMostOneRow ==
    \A r1, r2 \in inters :
        (r1.listing = r2.listing /\ r1.actor = r2.actor) => r1 = r2

(* C2: every (listing, actor) pair has at most one Interaction, and a create
   request that loses to the row of its pair, found by its own check or put
   there meanwhile by a concurrent request, fails with DuplicateSubmission and
   with no other outcome *)
C2_UniqueInteraction ==
    /\ C2_AtMostOneRow
    /\ \A p \in Procs : (CreateDone(p) /\ procs[p].clash) => procs[p].res = "duplicate"

(* two overlapping creates of one pair: one reported success, the other lost
   at the insert *)
C2_Witness ==
    \E p, q \in Procs :
        /\ CreateDone(p) /\ CreateDone(q)
        /\ procs[p].listing = procs[q].listing /\ procs[p].user = procs[q].user
        /\ procs[p].res = "created"
        /\ procs[q].clash /\ ~procs[q].had0 /\ procs[q].res = "server_error"

(* C3: after non-overlapping requests with N successful creates and M successful
   deletes on a listing its counter is N - M, and no reachable state has a
   negative counter *)
C3_CounterConsistency ==
    /\ \A l \in ListingIds : Exists(l) => listings[l].count >= 0
    /\ (hist.seq /\ Quiet) =>
           \A l \in ListingIds :
               Exists(l) => listings[l].count = hist.made[l] - hist.gone[l]

(* two creates and one delete, one after the other *)
C3_Witness ==
    /\ hist.seq /\ Quiet
    /\ hist.made[1] = 2 /\ hist.gone[1] = 1
    /\ listings[1].count = 1

(* C9: in a run of non-overlapping requests, a successful create takes the
   counter and the ledger of its listing up by one (0 to 1), a further create of
   the same actor on the still open listing (required fields present, CV
   stored) fails with DuplicateSubmission and leaves both as they were, and the actor's delete removes the row and takes the counter
   down by one (1 to 0) *)
C9_DuplicateScenario ==
    hist.seq =>
        \A p \in Procs :
            /\ CreateDone(p) =>
                  /\ procs[p].res = "created" =>
                        /\ ~procs[p].had0
                        /\ procs[p].count1 = procs[p].count0 + 1
                        /\ procs[p].rows1 = procs[p].rows0 + 1
                  /\ (procs[p].had0 /\ procs[p].form = "ok"
                      /\ procs[p].res # "not_found") =>
                        procs[p].res = "duplicate"
                  /\ procs[p].res = "duplicate" =>
                        /\ procs[p].count1 = procs[p].count0
                        /\ procs[p].rows1 = procs[p].rows0
            /\ (DeleteDone(p) /\ procs[p].res = "deleted") =>
                  /\ procs[p].count1 = procs[p].count0 - 1
                  /\ procs[p].rows1 = procs[p].rows0 - 1

(* the scenario: created (0 to 1), refused as duplicate (stays 1), deleted (1 to 0) *)
C9_Witness ==
    /\ hist.seq
    /\ hist.made[1] = 1 /\ hist.gone[1] = 1
    /\ \E p, q \in Procs :
          /\ CreateDone(p) /\ procs[p].res = "duplicate"
          /\ procs[p].count0 = 1 /\ procs[p].count1 = 1
          /\ DeleteDone(q) /\ procs[q].res = "deleted" /\ procs[q].user = procs[p].user
          /\ procs[q].count0 = 1 /\ procs[q].count1 = 0 /\ procs[q].rows1 = 0

----------------------------------------------------------------------------
(* Properties of moderation *)

ModerateDone(p) == procs[p].pc = "done" /\ procs[p].op \in {"approve", "reject"}

(* C4: every approve or reject of an administrator on a listing whose status is
   not pending fails with InvalidState *)
C4_OneShot ==
    \A p \in Procs :
        (ModerateDone(p) /\ users[procs[p].user].is_staff
         /\ procs[p].status0 \in {"approved", "rejected"}) =>
            procs[p].res = "invalid_state"

(* an approved listing has been rejected *)
C4_Witness ==
    \E p \in Procs :
        /\ ModerateDone(p) /\ procs[p].op = "reject"
        /\ procs[p].status0 = "approved" /\ procs[p].res = "ok"
        /\ listings[procs[p].listing].status = "rejected"

(* what the code does refuse: the decision the listing already carries *)
C4_SameDecisionRefused ==
    \A p \in Procs :
        (ModerateDone(p) /\ users[procs[p].user].is_staff) =>
            /\ (procs[p].op = "approve" /\ procs[p].status0 = "approved")
                  => procs[p].res = "invalid_state"
            /\ (procs[p].op = "reject" /\ procs[p].status0 = "rejected")
                  => procs[p].res = "invalid_state"

----------------------------------------------------------------------------
(* Properties of the gate and of listing creation *)

GatedOps == {"create_job", "create_property", "apply", "inquire"}
GatedDone(p) == procs[p].pc = "done" /\ procs[p].op \in GatedOps
ListingCreated(p) ==
    procs[p].pc = "done" /\ procs[p].op \in {"create_job", "create_property"}
    /\ procs[p].res = "created"
Allowed(f) == f.email_verified /\ f.identity = "verified"

(* a step that adds a listing is taken for a poster who is verified at that
   step; a step that adds an interaction is taken by a request that read its
   actor as verified *)
C5_GatedStep ==
    /\ \A l \in ListingIds :
          (listings[l] = NoRow /\ listings'[l] # NoRow) =>
              Allowed(Flags(listings'[l].posted_by))
    /\ \A r \in inters' \ inters :
          \E p \in Procs :
              /\ procs[p].pc = "insert" /\ procs'[p].pc = "count"
              /\ procs[p].user = r.actor /\ procs[p].listing = r.listing
              /\ Allowed(procs[p].flags)

(* a well-formed creation request (required fields present and well-formed,
   uploads stored) of a verified user succeeds and its listing is pending *)
C5_VerifiedCreates ==
    \A p \in Procs :
        (procs[p].pc = "done" /\ procs[p].op \in {"create_job", "create_property"}
         /\ Allowed(procs[p].flags) /\ procs[p].wellformed) =>
            /\ procs[p].res = "created"
            /\ listings[procs[p].listing].status = "pending"

(* C5: no Job, Property, JobApplication or PropertyInquiry is created by a
   request whose user has an unverified email, no identity record or an
   unapproved one; a verified user's creation request with all required fields
   succeeds and the new listing is pending *)
C5_VerificationGate ==
    [][C5_GatedStep]_vars /\ []C5_VerifiedCreates

(* a verified user has created a listing *)
C5_Witness ==
    \E p \in Procs :
        /\ ListingCreated(p) /\ Allowed(procs[p].flags)
        /\ listings[procs[p].listing].status = "pending"

(* C6: the denial of each of the four gated operations is 'email not verified'
   whenever the email is unverified, 'identity not submitted' when the email is
   verified and there is no identity record, 'identity not approved' when the
   email is verified and the record is unverified *)
C6_DenialReason ==
    \A p \in Procs : GatedDone(p) =>
        /\ ~procs[p].flags.email_verified => procs[p].res = "email_not_verified"
        /\ (procs[p].flags.email_verified /\ procs[p].flags.identity = "none")
              => procs[p].res = "identity_not_submitted"
        /\ (procs[p].flags.email_verified /\ procs[p].flags.identity = "unverified")
              => procs[p].res = "identity_not_approved"

(* an inquiry of a user with neither email nor identity verified was denied *)
C6_Witness ==
    \E p \in Procs :
        /\ GatedDone(p) /\ procs[p].op = "inquire"
        /\ ~procs[p].flags.email_verified /\ procs[p].flags.identity = "unverified"
        /\ procs[p].res = "email_not_verified"

ImagesOf(l) == {r \in images : r.listing = l}

(* C10: a creation with k uploads and a supplied thumbnail_index t stores
   exactly k images, the i-th with order = i and is_thumbnail = (i = t); when t
   is none of 0..k-1 the listing has no thumbnail *)
C10_ImageAssignment ==
    \A p \in Procs :
        (ListingCreated(p) /\ procs[p].t.given /\ procs[p].t.numeric) =>
            LET imgs == ImagesOf(procs[p].listing)
                k == procs[p].k
                t == procs[p].t.val
            IN  /\ Cardinality(imgs) = k
                /\ \A i \in 0..(k - 1) :
                      \E r \in imgs : r.order = i /\ r.is_thumbnail = (i = t)
                /\ t \notin 0..(k - 1) => \A r \in imgs : ~r.is_thumbnail

(* three uploads with thumbnail_index = 1 *)
C10_Witness ==
    \E p \in Procs :
        /\ ListingCreated(p) /\ procs[p].t.given /\ procs[p].k = 3 /\ procs[p].t.val = 1
        /\ {<<r.order, r.is_thumbnail>> : r \in ImagesOf(procs[p].listing)}
               = {<<0, FALSE>>, <<1, TRUE>>, <<2, FALSE>>}

CreateFailed(p) ==
    procs[p].pc = "done" /\ procs[p].op \in {"create_job", "create_property"}
    /\ procs[p].res = "server_error"
ListingRows == Cardinality({l \in ListingIds : Exists(l)})

(* C11: a creation request that fails after its listing row was inserted
   leaves neither the listing row nor any image row behind; one that succeeds
   leaves the listing row and all its k image rows *)
C11_AllOrNothing ==
    \A p \in Procs :
        /\ CreateFailed(p) =>
              /\ ListingRows = procs[p].listings0
              /\ Cardinality(images) = procs[p].images0
        /\ ListingCreated(p) =>
              /\ Exists(procs[p].listing)
              /\ ListingRows = procs[p].listings0 + 1
              /\ Cardinality(ImagesOf(procs[p].listing)) = procs[p].k
              /\ Cardinality(images) = procs[p].images0 + procs[p].k

(* the upload of the second image failed after the listing row and the first
   image row had been written *)
C11_Witness ==
    \E p \in Procs :
        /\ CreateFailed(p) /\ procs[p].stored = 1
        /\ ListingRows = procs[p].listings0

----------------------------------------------------------------------------
(* Properties of the ledger and of moderation, continued *)

Inserted(p) ==
    procs[p].pc \in {"count", "done"} /\ procs[p].op \in {"apply", "inquire"}
    /\ procs[p].status_ins # "none"

(* a create that finds its listing pending or rejected fails with NotFound and
   changes nothing; a create that inserts had found its listing approved *)
C12_ApprovedAtLookup ==
    \A p \in Procs :
        /\ (CreateDone(p) /\ Allowed(procs[p].flags)
            /\ procs[p].status0 \in {"pending", "rejected"}) =>
              /\ procs[p].res = "not_found"
              /\ procs[p].count1 = procs[p].count0
              /\ procs[p].rows1 = procs[p].rows0
        /\ Inserted(p) => procs[p].status0 = "approved"

(* C12: an Interaction is inserted only for a listing whose status is approved
   at the moment of the insert, under any interleaving with approve and reject
   requests; a create against a pending or rejected listing fails with NotFound
   and changes nothing *)
C12_ApprovedOnly ==
    /\ C12_ApprovedAtLookup
    /\ \A p \in Procs : Inserted(p) => procs[p].status_ins = "approved"

(* an application was inserted, and answered 201, for a listing rejected
   between its lookup and its insert *)
C12_Witness ==
    \E p \in Procs :
        /\ CreateDone(p) /\ procs[p].res = "created"
        /\ procs[p].status0 = "approved" /\ procs[p].status_ins = "rejected"

(* the columns moderation writes *)
Audit(row) ==
    <<row.status, row.approved_by, row.approval_date, row.rejection_reason>>

(* an approve or reject of a user who is not staff is answered PermissionDenied *)
C13_NonStaffDenied ==
    \A p \in Procs :
        (ModerateDone(p) /\ ~users[procs[p].user].is_staff) => procs[p].res = "forbidden"

(* the step that answers PermissionDenied writes no listing, and a step that
   changes the status, approver, approval date or rejection reason of a listing
   is the save of a staff user's request on that listing *)
C13_StaffStep ==
    /\ \A p \in Procs :
          (procs'[p] # procs[p] /\ procs'[p].pc = "done" /\ procs'[p].res = "forbidden")
              => listings' = listings
    /\ \A l \in ListingIds :
          (Exists(l) /\ listings'[l] # NoRow /\ Audit(listings'[l]) # Audit(listings[l])) =>
              \E p \in Procs :
                  /\ procs[p].pc = "save" /\ procs'[p].pc = "done"
                  /\ procs[p].listing = l
                  /\ users[procs[p].user].is_staff

(* C13: an approve or reject request of an actor with is_staff = false fails
   with PermissionDenied and leaves status, approved_by, approval_date and
   rejection_reason unchanged; a listing's status changes only in a step of a
   staff actor *)
C13_AdminGuard ==
    []C13_NonStaffDenied /\ [][C13_StaffStep]_vars

(* alice, who is not staff, asked to reject an approved listing, was denied,
   and the listing is still approved *)
C13_Witness ==
    \E p \in Procs :
        /\ ModerateDone(p) /\ procs[p].op = "reject" /\ procs[p].user = "alice"
        /\ procs[p].status0 = "approved" /\ procs[p].res = "forbidden"
        /\ listings[procs[p].listing].status = "approved"

(* an administrator's approve of an approved listing, or reject of a rejected
   one, is answered InvalidState *)
C14_Refused ==
    \A p \in Procs :
        (ModerateDone(p) /\ users[procs[p].user].is_staff
         /\ procs[p].status0 = (IF procs[p].op = "approve" THEN "approved" ELSE "rejected"))
            => procs[p].res = "invalid_state"

(* the step that answers InvalidState writes no listing *)
C14_RefusedStep ==
    \A p \in Procs :
        (procs'[p] # procs[p] /\ procs'[p].pc = "done" /\ procs'[p].res = "invalid_state")
            => listings' = listings

(* C14: approve on an approved listing and reject on a rejected one fail with
   InvalidState and leave status, approved_by, approval_date and
   rejection_reason as they were *)
C14_SameDecisionRefused ==
    []C14_Refused /\ [][C14_RefusedStep]_vars

(* an approve of the listing approved at time 0 was refused, and the listing
   still carries that approver and that date *)
C14_Witness ==
    \E p \in Procs :
        /\ ModerateDone(p) /\ procs[p].op = "approve" /\ procs[p].res = "invalid_state"
        /\ listings[procs[p].listing].approved_by = "admin"
        /\ listings[procs[p].listing].approval_date = <<0>>

(* the save of an approve or reject stamps the row *)
C15_StampStep ==
    \A p \in Procs :
        (procs[p].pc = "save" /\ procs'[p].pc = "done" /\ procs'[p].res = "ok") =>
            LET row == listings'[procs[p].listing]
            IN  /\ row.status = (IF procs[p].op = "approve" THEN "approved" ELSE "rejected")
                /\ row.approved_by = procs[p].user
                /\ row.approval_date # NoDate
                /\ procs[p].op = "reject" => row.rejection_reason = procs[p].reason

(* C15: immediately after a successful approve or reject by admin a the listing
   has approved_by = a and a non-null approval_date, and after a reject with
   reason r its rejection_reason is r *)
C15_AuditStamp ==
    [][C15_StampStep]_vars

(* the pending listing was rejected with a reason and carries the stamp *)
C15_Witness ==
    \E p \in Procs :
        /\ ModerateDone(p) /\ procs[p].op = "reject" /\ procs[p].res = "ok"
        /\ procs[p].status0 = "pending" /\ procs[p].reason = "spam"
        /\ listings[procs[p].listing].rejection_reason = "spam"
        /\ listings[procs[p].listing].approved_by = procs[p].user
        /\ listings[procs[p].listing].approval_date = <<now>>

(* C16: a delete request of a user who is not the Interaction's actor, the
   listing's owner included, fails with PermissionDenied and leaves the row and
   the listing's counter unchanged; a successful delete is the actor's, removes
   the row and, when no other request overlaps it, takes the counter down by
   exactly 1 unless it is 0 already *)
C16_DeleteByCreator ==
    \A p \in Procs : DeleteDone(p) =>
        /\ (procs[p].had0 /\ ~procs[p].mine) =>
              /\ procs[p].res = "forbidden"
              /\ procs[p].count1 = procs[p].count0
              /\ procs[p].rows1 = procs[p].rows0
        /\ procs[p].res = "deleted" => procs[p].mine
        /\ (procs[p].res = "deleted" /\ p \notin hist.over) =>
              /\ procs[p].count1 = (IF procs[p].count0 > 0 THEN procs[p].count0 - 1 ELSE 0)
              /\ procs[p].rows1 = procs[p].rows0 - 1

(* bob, the owner of the listing, was denied the delete of alice's application;
   alice's own delete took the counter from 1 to 0 *)
C16_Witness ==
    \E p, q \in Procs :
        /\ DeleteDone(p) /\ procs[p].user = "bob" /\ procs[p].res = "forbidden"
        /\ listings[procs[p].listing].posted_by = "bob"
        /\ DeleteDone(q) /\ procs[q].user = "alice" /\ procs[q].res = "deleted"
        /\ q \notin hist.over /\ procs[q].count0 = 1 /\ procs[q].count1 = 0

(* a delete run on its own, on a listing whose counter was 0 already, left it 0 *)
C16_FloorReached ==
    \E p \in Procs :
        /\ DeleteDone(p) /\ procs[p].res = "deleted" /\ p \notin hist.over
        /\ procs[p].count0 = 0 /\ procs[p].count1 = 0

----------------------------------------------------------------------------
(* Properties of the sub-status *)

UpdateDone(p) == procs[p].pc = "done" /\ procs[p].op \in UpdateOps

(* an update of a user who is not the owner of the listing is denied *)
C17_Denied ==
    \A p \in Procs :
        (UpdateDone(p) /\ procs[p].had0 /\ ~procs[p].owner) => procs[p].res = "forbidden"

(* the step that denies writes no Interaction, and a step that changes the
   status of an Interaction is the save of a request of the listing's owner *)
C17_OwnerStep ==
    /\ \A p \in Procs :
          (procs'[p] # procs[p] /\ procs'[p].pc = "done" /\ procs'[p].res = "forbidden")
              => inters' = inters
    /\ \A r \in inters : \A r2 \in inters' :
          (r2.id = r.id /\ r2.status # r.status) =>
              \E p \in Procs :
                  /\ procs[p].pc = "save" /\ procs'[p].pc = "done"
                  /\ procs[p].row = r.id
                  /\ procs[p].user = listings[r.listing].posted_by

(* C17: only the owner of the parent listing changes an Interaction's status;
   an updateStatus request of any other user, the Interaction's own actor
   included, is denied and leaves the status unchanged *)
C17_OwnerOnly ==
    []C17_Denied /\ [][C17_OwnerStep]_vars

(* alice asked to change the status of her own application and was denied *)
C17_Witness ==
    \E p \in Procs :
        /\ UpdateDone(p) /\ procs[p].user = "alice" /\ procs[p].res = "forbidden"
        /\ \E r \in inters : r.id = procs[p].row /\ r.actor = "alice" /\ r.status = "pending"

(* C19: reset tokens are single-use per batch.  A successful reset_password
   leaves no PasswordResetToken row of the user, and every later
   reset_password that presents a token value issued to the user before that
   reset answers "Invalid reset token" and leaves the password as it was *)
C19_SingleUseBatch ==
    \A p \in Procs : ResetDone(p) =>
        /\ procs[p].res = "password_reset" => procs[p].left = 0
        /\ procs[p].old =>
              /\ procs[p].res = "invalid_token"
              /\ ~procs[p].changed

(* a token value that an earlier successful reset of the user had voided was
   presented again and the password was reset *)
C19_Witness ==
    \E p \in Procs :
        /\ ResetDone(p) /\ procs[p].old
        /\ procs[p].res = "password_reset"

(* what the code does keep: a successful reset leaves no token row of the
   user, and a token value voided by it is refused until verify_otp draws the
   same value again *)
C19_VoidedUntilReissued ==
    \A p \in Procs : ResetDone(p) =>
        /\ procs[p].res = "password_reset" => procs[p].left = 0
        /\ procs[p].voided =>
              /\ procs[p].res = "invalid_token"
              /\ ~procs[p].changed

(* the case of C19_VoidedUntilReissued reached while two token values of the
   user were voided *)
C19_VoidedRefused ==
    \E p \in Procs :
        /\ ResetDone(p) /\ procs[p].voided /\ procs[p].res = "invalid_token"
        /\ Cardinality(hist.voided) = 2

(* C20: verify_otp with the code of an earlier-issued unexpired OTP of the
   user, while the user's latest unexpired OTP has another code, fails and
   issues no token *)
C20_OnlyLatestOtp ==
    \A p \in Procs : (VerifyDone(p) /\ procs[p].earlier) =>
        /\ procs[p].res # "otp_verified"
        /\ ~procs[p].issued

(* the code of the earlier OTP was accepted and a reset token was issued *)
C20_Witness ==
    \E p \in Procs :
        /\ VerifyDone(p) /\ procs[p].earlier
        /\ procs[p].res = "otp_verified" /\ procs[p].issued

(* what the code does keep: the code of any unexpired OTP of the user is
   accepted unless the token drawn is already taken, and all OTPs of the
   user are deleted on success *)
C20_AnyLiveOtp ==
    \A p \in Procs : (VerifyDone(p) /\ procs[p].earlier) =>
        /\ procs[p].res \in {"otp_verified", "server_error"}
        /\ procs[p].res = "otp_verified" => procs[p].left = 0

(* every OTP row belongs to a user whose request_password_reset issued an OTP,
   and every token row was issued to its user by a successful verify_otp *)
C21_RowsHaveOrigin ==
    /\ \A o \in otps : o.user \in hist.asked
    /\ \A r \in tokens : <<r.user, r.token>> \in hist.given
    /\ \A g \in hist.given : g[1] \in hist.asked

(* a step that issues a token to u found an unexpired OTP of u, and a step that
   changes the password of u found an unexpired token of u, changes no other
   user's password and leaves no token of u *)
C21_OrderedStep ==
    /\ \A r \in tokens' \ tokens :
          /\ \E o \in otps : o.user = r.user /\ now <= o.expires_at
          /\ \E p \in Procs : VerifyDone(p)' /\ procs'[p].res = "otp_verified"
    /\ \A u \in UserIds :
          users'[u].password # users[u].password =>
              /\ \E r \in tokens :
                    /\ r.user = u /\ ~(r.expires_at < now)
                    /\ <<u, r.token>> \in hist.given
              /\ \E p \in Procs : ResetDone(p)' /\ procs'[p].res = "password_reset"
              /\ \A v \in UserIds \ {u} : users'[v] = users[v]
              /\ \A r \in tokens' : r.user # u

(* C21: password-reset ordering.  A successful reset_password for u follows a
   successful verify_otp for u that issued the token, which follows a
   request_password_reset for u that issued the OTP; no token exists for a
   user without a successful verify_otp, and reset_password changes the
   password of the token's owner only *)
C21_ResetOrdering ==
    []C21_RowsHaveOrigin /\ [][C21_OrderedStep]_vars

(* C21, the case reached: bob's password was reset while alice, who had asked
   for an OTP as well, keeps hers *)
C21_Witness ==
    /\ \E p \in Procs : ResetDone(p) /\ procs[p].res = "password_reset" /\ procs[p].changed
    /\ hist.asked = {"alice", "bob"}
    /\ users["bob"].password # users["alice"].password

(* C29: request_password_reset and verify_otp find an existing user by an
   address that differs from the stored one only in letter case; they do not
   answer NotFound *)
C29_LookupIgnoresCase ==
    \A p \in Procs :
        (procs[p].pc = "done" /\ procs[p].op \in {"request_reset", "verify_otp"}
         /\ procs[p].res = "not_found") => ~procs[p].known

(* verify_otp for "Alice@x.ng" answered NotFound while alice@x.ng holds an
   unexpired OTP *)
C29_Witness ==
    \E p \in Procs :
        /\ procs[p].pc = "done" /\ procs[p].op = "verify_otp"
        /\ procs[p].res = "not_found" /\ procs[p].known
        /\ \E o \in otps : o.user = "alice" /\ now <= o.expires_at

(* what the code does: every request that carries an address no user has
   stored letter for letter is answered NotFound and issues or checks nothing *)
C29_ExactLookup ==
    [][\A p \in Procs :
         (procs'[p] # procs[p] /\ procs'[p].pc = "done" /\ procs'[p].res = "not_found")
             => /\ otps' = otps
                /\ tokens' = tokens]_vars

(* C30: an expired OTP never yields a reset token.  verify_otp issues a token
   only if the submitted code is the code of an unexpired OTP of the user, and
   after every verify_otp call for an existing user no expired OTP row of
   that user is left *)
C30_ExpiredOtpUseless ==
    \A p \in Procs : VerifyDone(p) =>
        /\ procs[p].issued => procs[p].correct
        /\ ~procs[p].stale

(* C30, the case reached: the submitted code was the code of an expired OTP of
   the user only; the call answered "Invalid OTP" and issued nothing *)
C30_Witness ==
    \E p \in Procs :
        /\ VerifyDone(p) /\ procs[p].lapsed /\ ~procs[p].correct
        /\ procs[p].res = "invalid_otp" /\ ~procs[p].issued

DetailDone(p) == procs[p].pc = "done" /\ procs[p].op \in DetailOps

(* C22: when no request is running, the view_count of every Property has grown
   by the number of successful get_property_detail calls on it, overlapping
   calls included; get_job_detail changes no row *)
C22_ViewCount ==
    Quiet =>
        \A l \in ListingIds : Exists(l) => listings[l].view_count = hist.seen[l]

(* two get_property_detail calls on the same Property have both answered and
   its view_count has grown by one *)
C22_Witness ==
    /\ Quiet
    /\ \A p \in Procs : DetailDone(p) /\ procs[p].res = "ok" /\ procs[p].listing = 1
    /\ hist.seen[1] = 2
    /\ listings[1].view_count = 1

(* what the code does keep: calls that do not overlap each add one, and
   get_job_detail writes nothing *)
C22_SequentialViews ==
    /\ (hist.seq /\ Quiet) =>
          \A l \in ListingIds : Exists(l) => listings[l].view_count = hist.seen[l]
    /\ \A l \in ListingIds :
          (Exists(l) /\ listings[l].kind = "job") => listings[l].view_count = 0

ListDone(p) == procs[p].pc = "done" /\ procs[p].op \in ListOps

(* C27: list_jobs and list_properties return exactly the listings of their
   table with status approved and is_active true; a pending or rejected
   listing is never returned *)
C27_PublicList ==
    \A p \in Procs : ListDone(p) => procs[p].result = procs[p].approved

(* a list request returned a pending listing *)
C27_Witness ==
    \E p \in Procs :
        /\ ListDone(p)
        /\ \E l \in procs[p].result : listings[l].status = "pending"

(* what the code does: the lists return the pending listings, and so no
   approved and no rejected one *)
C27_ListsPending ==
    \A p \in Procs : ListDone(p) =>
        \A l \in ListingIds :
            l \in procs[p].result <=>
                /\ Exists(l) /\ listings[l].status = "pending" /\ listings[l].is_active
                /\ listings[l].kind = (IF procs[p].op = "list_jobs" THEN "job" ELSE "property")

(* the request reached its notification and the mail was not sent *)
Unsent(p) ==
    /\ procs[p].pc = "done"
    /\ "notified" \in DOMAIN procs[p]
    /\ procs[p].notified \notin {"none", "sent"}

(* C25: when the notification of a listing creation, an approve, a reject, an
   interaction creation or an inquiry status update is not sent, the request
   still reports success and its state change is in the database: the listing
   row with its images, the status and audit fields, the interaction row with
   the counter, the new sub-status *)
C25_NotificationBestEffort ==
    \A p \in Procs : Unsent(p) =>
        LET r == procs[p]
        IN  CASE r.op \in {"create_job", "create_property"} ->
                   /\ r.res = "created"
                   /\ Exists(r.listing)
                   /\ listings[r.listing].posted_by = r.user
                   /\ Cardinality(ImagesOf(r.listing)) = r.k
              [] r.op \in {"approve", "reject"} ->
                   /\ r.res = "ok"
                   /\ listings[r.listing].status =
                          (IF r.op = "approve" THEN "approved" ELSE "rejected")
                   /\ listings[r.listing].approved_by = r.user
                   /\ listings[r.listing].approval_date = <<now>>
                   /\ r.op = "reject" => listings[r.listing].rejection_reason = r.reason
              [] r.op \in {"apply", "inquire"} ->
                   /\ r.res = "created"
                   /\ r.count1 = r.count0 + 1
                   /\ r.rows1 = r.rows0 + 1
                   /\ listings[r.listing].count = r.count1
                   /\ \E i \in inters : i.listing = r.listing /\ i.actor = r.user
              [] r.op = "update_inquiry" ->
                   /\ r.res = "ok"
                   /\ \E i \in inters : i.id = r.row /\ i.status = r.value

(* C25, the case reached: with the mail service down alice created listing 2
   and its approval by admin answered success *)
C25_Witness ==
    /\ ~hist.mail
    /\ Exists(2) /\ listings[2].posted_by = "alice"
    /\ Unsent("p1") /\ procs["p1"].op = "approve" /\ procs["p1"].listing = 2
    /\ procs["p1"].res = "ok" /\ listings[2].status = "approved"

IdentityDone(p) ==
    /\ procs[p].pc = "done" /\ procs[p].op = "verify_identity"
    /\ procs[p].res \in {"submitted", "updated"}

(* C28: a resubmission (verify_identity for a user that has a record)
   overwrites the document and leaves the verified flag of the record as it
   was; a first submission creates the record unverified.  (One record per
   user is the OneToOneField of accounts/models.py:28, which the table
   `identity`, a function of the user, carries by construction.) *)
C28_ResubmissionKeepsVerdict ==
    \A p \in Procs : IdentityDone(p) =>
        LET r == procs[p]
        IN  /\ identity[r.user].document = r.doc
            /\ r.res = "updated" <=> r.state0 # "none"
            /\ identity[r.user].state =
                   (IF r.state0 = "none" THEN "unverified" ELSE r.state0)

(* C28, the case reached: a verified user resubmitted with another document
   and is still verified *)
C28_Witness ==
    \E p \in Procs :
        /\ IdentityDone(p) /\ procs[p].res = "updated" /\ procs[p].state0 = "verified"
        /\ identity[procs[p].user] = [state |-> "verified", document |-> "doc2"]

SignupDone(p) == procs[p].pc = "done" /\ procs[p].op = "signup"

(* C23: in every reachable state, after any interleaving of signup and
   update_email requests, two concurrent signups whose addresses differ only
   in letter case included, no two User rows have addresses that are equal
   when letter case is ignored *)
C23_EmailsUniqueIgnoringCase ==
    \A a, b \in DOMAIN users :
        a # b => Lower(users[a].email) # Lower(users[b].email)

(* two overlapping signups with addresses that differ only in letter case
   were both answered 201 and both rows are in the table *)
C23_Witness ==
    \E p, q \in Procs :
        /\ p # q /\ SignupDone(p) /\ SignupDone(q)
        /\ procs[p].res \in {"created", "created_unsent"}
        /\ procs[q].res \in {"created", "created_unsent"}
        /\ procs[p].email # procs[q].email
        /\ Lower(procs[p].email) = Lower(procs[q].email)
        /\ users[procs[p].user_id].email = procs[p].email
        /\ users[procs[q].user_id].email = procs[q].email

(* what the code does keep: no two User rows have exactly the same address,
   and while no two requests have overlapped no two rows have addresses that
   are equal when letter case is ignored *)
C23_EmailsUniqueExactly ==
    /\ \A a, b \in DOMAIN users : a # b => users[a].email # users[b].email
    /\ hist.seq => C23_EmailsUniqueIgnoringCase

(* the step of slot p is a verify_email save whose token check succeeded for u *)
VerifiedBy(p, u) ==
    /\ procs[p].pc = "save" /\ procs[p].op = "verify_email" /\ procs[p].user = u
    /\ procs'[p].pc = "done" /\ procs'[p].res = "verified"

Flipped(u) ==
    /\ u \in DOMAIN users /\ ~users[u].email_verified
    /\ users'[u].email_verified

(* C24: a user's email_verified flag changes from false to true only in a
   verify_email step whose token check succeeded for that user; no other
   operation sets it to true, and a new row starts with the flag false *)
C24_OnlyVerifyEmailFlips ==
    [][/\ \A u \in DOMAIN users : Flipped(u) => \E p \in Procs : VerifiedBy(p, u)
       /\ \A u \in DOMAIN users' \ DOMAIN users : ~users'[u].email_verified]_vars

(* update_email of alice, verified before, was answered 200 and set the flag
   false, and the profile update that had loaded her row before wrote the flag
   back as true *)
C24_Witness ==
    \E p, q \in Procs :
        /\ p # q
        /\ procs[p].pc = "done" /\ procs[p].op = "update_profile" /\ procs[p].res = "ok"
        /\ procs[q].pc = "done" /\ procs[q].op = "update_email" /\ procs[q].res = "ok"
        /\ procs[p].local.email_verified /\ procs[p].local = procs[q].local
        /\ users[procs[p].user] = procs[p].local
        /\ p \in hist.over /\ q \in hist.over

(* what the code does keep: while no two requests have overlapped, the flag
   changes from false to true only in a verify_email step whose token check
   succeeded for that user *)
C24_SequentialFlips ==
    [][hist.seq =>
         \A u \in DOMAIN users : Flipped(u) => \E p \in Procs : VerifiedBy(p, u)]_vars

(* the step of slot p is the second half of a signup that saved the user and
   whose verification e-mail was not sent *)
SavedUnsent(p) ==
    /\ procs[p].pc = "insert" /\ procs[p].op = "signup"
    /\ procs'[p].pc = "done" /\ "sent" \in DOMAIN procs'[p]
    /\ procs'[p].sent # "sent"

(* C26: a signup whose verification e-mail fails still creates the account:
   the step adds the User row with the address of the request and
   email_verified false, the response is a success that carries the id of the
   new row, and the row stays in the table *)
C26_SignupSurvivesMailFailure ==
    /\ [](\A p \in Procs :
            (SignupDone(p) /\ "user_id" \in DOMAIN procs[p]) =>
                /\ procs[p].res \in {"created", "created_unsent"}
                /\ procs[p].user_id \in DOMAIN users)
    /\ [][\A p \in Procs :
            SavedUnsent(p) =>
                /\ procs'[p].res \in {"created", "created_unsent"}
                /\ procs'[p].user_id \notin DOMAIN users
                /\ procs'[p].user_id \in DOMAIN users'
                /\ users'[procs'[p].user_id] =
                       [email |-> procs[p].email, email_verified |-> FALSE,
                        is_staff |-> FALSE, password |-> "pw1"]]_vars

(* a signup whose verification e-mail raised was answered 201 with the id of
   the new row, which is in the table with email_verified false *)
C26_Witness ==
    \E p \in Procs :
        /\ SignupDone(p) /\ procs[p].res = "created_unsent"
        /\ procs[p].sent = "raised"
        /\ procs[p].user_id \in DOMAIN users
        /\ users[procs[p].user_id].email = procs[p].email
        /\ ~users[procs[p].user_id].email_verified

EnumOf(kind) == IF kind = "job" THEN ApplicationStatuses ELSE InquiryStatuses

(* C18: the status of every JobApplication and PropertyInquiry is a value of
   its enum, and an updateStatus request of the owner with any other value, or
   with none, fails with ValidationError and leaves the status unchanged *)
C18_StatusInEnum ==
    /\ \A r \in inters : r.status \in EnumOf(listings[r.listing].kind)
    /\ \A p \in Procs :
          (UpdateDone(p) /\ procs[p].owner
           /\ procs[p].value \notin EnumOf(TableOf(procs[p].op))) =>
              procs[p].res \in {"invalid_status", "failed"}

(* the owner's update of a job application to a value outside the enum was
   answered 200 and the row carries the value *)
C18_Witness ==
    \E p \in Procs :
        /\ UpdateDone(p) /\ procs[p].op = "update_application"
        /\ procs[p].value = "bogus" /\ procs[p].res = "ok"
        /\ \E r \in inters : r.id = procs[p].row /\ r.status = "bogus"

(* what the code does keep: the status of a PropertyInquiry stays in its enum *)
C18_InquiryStatusInEnum ==
    \A r \in inters :
        listings[r.listing].kind = "property" => r.status \in InquiryStatuses

----------------------------------------------------------------------------
(* Properties of the ledger and of moderation under concurrency *)

(* while a create request stands between its row insert and its counter
   write, no other request takes a step *)
C31_UnitStep ==
    \A p, q \in Procs :
        (p # q /\ procs[p].pc = "count") => procs'[q] = procs[q]

(* C31: the duplicate check, the Interaction row insert and the counter
   increment of a create take effect together: no other request observes or
   acts on a state in which the new row exists and the counter of the listing
   has not been incremented *)
C31_AtomicCreate ==
    [][C31_UnitStep]_vars

(* a create request began on a listing and read one row more than the counter
   says, while the request that inserted that row had not written the counter *)
C31_Witness ==
    \E p, q \in Procs :
        /\ p # q /\ procs[p].pc = "count"
        /\ procs[q].pc = "check" /\ procs[q].listing = procs[p].listing
        /\ procs[p].count0 = procs[p].rows0
        /\ procs[q].count0 = procs[p].count0
        /\ procs[q].rows0 = procs[p].rows0 + 1

(* what the code does keep: a create that no request overlaps leaves the
   counter and the ledger of its listing one higher than it found them *)
C31_UnitWhenAlone ==
    \A p \in Procs :
        (CreateDone(p) /\ procs[p].res = "created" /\ p \notin hist.over) =>
            /\ procs[p].count1 = procs[p].count0 + 1
            /\ procs[p].rows1 = procs[p].rows0 + 1

(* C32: once concurrently executing create and delete requests on a listing
   have completed, the counter of the listing equals the number of its
   Interaction rows: no increment or decrement is lost or applied twice *)
C32_NoDrift ==
    Quiet => \A l \in ListingIds : Exists(l) => listings[l].count = RowsOf(l)

(* two overlapping creates of alice and bob on one listing both answered 201,
   the listing has two rows and its counter is 1 *)
C32_Witness ==
    \E p, q \in Procs :
        /\ Quiet /\ p # q /\ CreateDone(p) /\ CreateDone(q)
        /\ procs[p].res = "created" /\ procs[q].res = "created"
        /\ procs[p].listing = procs[q].listing /\ procs[p].user # procs[q].user
        /\ RowsOf(procs[p].listing) = 2
        /\ listings[procs[p].listing].count = 1

(* the step is the save of an approve or reject of slot p *)
ModerationSaved(p) ==
    /\ procs[p].pc = "save" /\ procs[p].op \in {"approve", "reject"}
    /\ procs'[p].pc = "done"

(* C36: an approve or reject step leaves the applicant_count / inquiry_count
   and the view_count of the listing unchanged, also when a create, a delete or
   a detail request on the listing is interleaved with it *)
C36_ModerationKeepsCounters ==
    [][\A p \in Procs :
          ModerationSaved(p) =>
              /\ listings'[procs[p].listing].count = listings[procs[p].listing].count
              /\ listings'[procs[p].listing].view_count =
                     listings[procs[p].listing].view_count]_vars

(* a reject read the listing with counter 0, a create overlapping it took the
   counter to 1, and the save of the reject wrote 0 back: one row, counter 0 *)
C36_Witness ==
    \E p, q \in Procs :
        /\ ModerateDone(p) /\ procs[p].res = "ok" /\ p \in hist.over
        /\ CreateDone(q) /\ procs[q].res = "created" /\ procs[q].count1 = 1
        /\ procs[q].listing = procs[p].listing
        /\ RowsOf(procs[p].listing) = 1
        /\ listings[procs[p].listing].count = 0

(* what the code does keep: the save of an approve or reject that no request
   overlaps leaves the counters of the listing as they were *)
C36_AloneKeepsCounters ==
    [][\A p \in Procs :
          (ModerationSaved(p) /\ p \notin hist.over) =>
              /\ listings'[procs[p].listing].count = listings[procs[p].listing].count
              /\ listings'[procs[p].listing].view_count =
                     listings[procs[p].listing].view_count]_vars

----------------------------------------------------------------------------
(* Properties of the password reset flow under concurrency (checked under SpecRace) *)

(* slots p and q hold the responses of two verify_otp requests that ran
   concurrently and found the same OTP row with the same code *)
RacedVerify(p, q) ==
    /\ p # q /\ {p, q} \subseteq hist.over
    /\ procs[p].pc = "done" /\ procs[p].op = "verify_otp"
    /\ procs[q].pc = "done" /\ procs[q].op = "verify_otp"
    /\ procs[p].res # "not_found" /\ procs[q].res # "not_found"
    /\ procs[p].matched > 0 /\ procs[p].matched = procs[q].matched

(* C33: of two verify_otp requests that run concurrently with the same correct
   code of the user's one outstanding OTP, exactly one succeeds and exactly one
   reset token is issued; the other is answered Invalid OTP *)
C33_OneVerificationWins ==
    \A p, q \in Procs :
        RacedVerify(p, q) =>
            \/ procs[p].res = "otp_verified" /\ procs[q].res = "invalid_otp"
            \/ procs[q].res = "otp_verified" /\ procs[p].res = "invalid_otp"

(* both requests found alice's OTP, both were answered 200, and alice holds the
   two tokens they issued *)
C33_Witness ==
    \E p, q \in Procs :
        /\ RacedVerify(p, q)
        /\ procs[p].res = "otp_verified" /\ procs[q].res = "otp_verified"
        /\ procs[p].token # procs[q].token
        /\ \A t \in {procs[p].token, procs[q].token} :
              \E r \in tokens : r.user = "alice" /\ r.token = t

(* what the code does keep: while no two requests have overlapped, a code is
   verified at most once per OTP row *)
C33_OnceWhenSequential ==
    hist.seq =>
        \A p, q \in Procs :
            (/\ p # q
             /\ procs[p].pc = "done" /\ procs[p].op = "verify_otp"
             /\ procs[q].pc = "done" /\ procs[q].op = "verify_otp"
             /\ procs[p].res = "otp_verified" /\ procs[q].res = "otp_verified")
                => procs[p].matched # procs[q].matched

(* slots p and q hold the responses of two reset_password requests that ran
   concurrently, presented the same token and both found its row *)
RacedReset(p, q) ==
    /\ p # q /\ {p, q} \subseteq hist.over
    /\ procs[p].pc = "done" /\ procs[p].op = "reset_password"
    /\ procs[q].pc = "done" /\ procs[q].op = "reset_password"
    /\ "read" \in DOMAIN procs[p] /\ "read" \in DOMAIN procs[q]
    /\ procs[p].read /\ procs[q].read
    /\ procs[p].token = procs[q].token

(* C34: of two reset_password requests that run concurrently with the same
   valid token, at most one sets the password and reports success; the other
   is answered Invalid reset token *)
C34_OneResetWins ==
    \A p, q \in Procs :
        RacedReset(p, q) =>
            /\ ~(procs[p].res = "password_reset" /\ procs[q].res = "password_reset")
            /\ procs[p].res = "password_reset" => procs[q].res = "invalid_token"

(* both requests read alice's token, both saved her password and both were
   answered 200 *)
C34_Witness ==
    \E p, q \in Procs :
        /\ RacedReset(p, q)
        /\ procs[p].res = "password_reset" /\ procs[q].res = "password_reset"
        /\ procs[p].user = "alice" /\ procs[q].user = "alice"
        /\ users["alice"].password \in Passwords

(* what the code does keep: a reset_password request that no request overlaps
   sets the password only while the token it presented is in the table *)
C34_HeldWhenAlone ==
    \A p \in Procs :
        (/\ procs[p].pc \in {"tok_clear", "done"}
         /\ procs[p].op = "reset_password"
         /\ "held" \in DOMAIN procs[p]
         /\ p \notin hist.over) => procs[p].held

----------------------------------------------------------------------------
(* Failure atomicity of the password reset flow (checked under SpecReset) *)

(* the responses of the reset flow that report success *)
ResetSuccesses == {"otp_sent", "otp_verified", "password_reset"}

(* the tables the reset flow writes *)
ResetTables == <<users, otps, tokens>>

(* C35: a mutating request that reports a failure to its caller leaves the
   persisted state as it was before the request: a step that changes a table
   ends in a response that reports success; in particular a
   request_password_reset whose OTP e-mail fails leaves no OTP behind *)
C35_FailuresChangeNothing ==
    [][ResetTables' # ResetTables =>
          \E p \in Procs :
              procs'[p].pc = "done" /\ procs'[p].res \in ResetSuccesses]_vars

(* a request_password_reset was answered 500 "Failed to send email" and the
   OTP row it created is in the table, not expired *)
C35_Witness ==
    \E p \in Procs :
        /\ procs[p].pc = "done" /\ procs[p].op = "request_reset"
        /\ procs[p].res = "email_failed"
        /\ \E r \in otps :
              /\ r.id = Cardinality(hist.issued)
              /\ r.user \in hist.asked
              /\ now <= r.expires_at

(* what the code does keep: a request of the reset flow that reports a failure
   changes no password and creates no token *)
C35_FailuresKeepPasswords ==
    [][(users' # users \/ ~(tokens' \subseteq tokens)) =>
          \E p \in Procs :
              procs'[p].pc = "done" /\ procs'[p].res \in ResetSuccesses]_vars

----------------------------------------------------------------------------
(* Invariants of the audit fields (checked under Spec) *)

(* C37: in every reachable state a pending listing has no approver, no
   approval date and no rejection reason, and an approved or rejected listing
   has an approval date and an approver who was staff when the transition was
   made *)
C37_AuditFields ==
    \A l \in ListingIds : Exists(l) =>
        LET row == listings[l]
        IN  /\ row.status = "pending" =>
                /\ row.approved_by = NoUser
                /\ row.approval_date = NoDate
                /\ row.rejection_reason = "null"
            /\ row.status \in {"approved", "rejected"} =>
                /\ row.approval_date # NoDate
                /\ row.approved_by \in UserIds
                /\ users[row.approved_by].is_staff

(* the pending listing was approved by the administrator and carries the
   stamp of that request *)
C37_Witness ==
    \E p \in Procs :
        /\ ModerateDone(p) /\ procs[p].op = "approve" /\ procs[p].res = "ok"
        /\ procs[p].status0 = "pending"
        /\ listings[procs[p].listing].status = "approved"
        /\ listings[procs[p].listing].approved_by = "admin"
        /\ listings[procs[p].listing].approval_date = <<now>>

(* C38: in every reachable state, after any sequence of approve and reject
   requests, an approved listing carries no rejection reason: it is null or
   empty *)
C38_ApprovedHasNoReason ==
    \A l \in ListingIds :
        (Exists(l) /\ listings[l].status = "approved") =>
            listings[l].rejection_reason \in {"null", ""}

(* a listing rejected with the reason "spam" was approved afterwards, is
   approved and still carries the reason *)
C38_Witness ==
    \E p \in Procs :
        /\ ModerateDone(p) /\ procs[p].op = "approve" /\ procs[p].res = "ok"
        /\ procs[p].status0 = "rejected"
        /\ listings[procs[p].listing].status = "approved"
        /\ listings[procs[p].listing].rejection_reason = "spam"

(* what the code does keep: a rejection reason is what a reject request gave,
   and a listing that is pending has none *)
C38_ReasonFromReject ==
    \A l \in ListingIds : Exists(l) =>
        /\ listings[l].rejection_reason \in Reasons \cup {"null"}
        /\ listings[l].status = "pending" => listings[l].rejection_reason = "null"

----------------------------------------------------------------------------
(* Properties of listing deletion (checked under SpecDelete) *)

ListingDeleteDone(p) == procs[p].pc = "done" /\ procs[p].op \in DeleteListingOps

(* every image row and every Interaction row references a listing that exists *)
C40_NoOrphans ==
    /\ \A r \in images : Exists(r.listing)
    /\ \A r \in inters : Exists(r.listing)

(* a delete request of a user who is not the owner is answered
   PermissionDenied, and a successful one is the owner's *)
C40_OwnerOnly ==
    \A p \in Procs : ListingDeleteDone(p) =>
        /\ (procs[p].found /\ ~procs[p].mine) => procs[p].res = "forbidden"
        /\ procs[p].res = "deleted" => procs[p].mine

(* the step that answers PermissionDenied changes nothing, and the step that
   answers success leaves no row of the listing, of its images or of its
   Interactions *)
C40_DeleteStep ==
    \A p \in Procs :
        /\ (procs'[p] # procs[p] /\ procs'[p].pc = "done"
            /\ procs'[p].op \in DeleteListingOps /\ procs'[p].res = "forbidden")
               => <<listings, images, inters>>' = <<listings, images, inters>>
        /\ (procs[p].pc = "cascade" /\ procs'[p].pc = "done"
            /\ procs'[p].res = "deleted")
               => /\ listings'[procs[p].listing] = NoRow
                  /\ \A r \in images' : r.listing # procs[p].listing
                  /\ \A r \in inters' : r.listing # procs[p].listing

(* C40: a delete_job / delete_property request of a user other than posted_by
   fails with PermissionDenied and changes nothing; after a successful delete
   the listing, its images and its Interactions are gone; in every reachable
   state every image row and every Interaction row references an existing
   listing *)
C40_OwnerDeleteNoOrphans ==
    [](C40_NoOrphans /\ C40_OwnerOnly) /\ [][C40_DeleteStep]_vars

(* alice was denied the delete of bob's listing, and bob's own delete removed
   the listing with its two images and with the Interaction on it *)
C40_Witness ==
    \E p, q \in Procs :
        /\ ListingDeleteDone(p) /\ procs[p].user = "alice" /\ procs[p].res = "forbidden"
        /\ ListingDeleteDone(q) /\ procs[q].user = "bob" /\ procs[q].res = "deleted"
        /\ Cardinality(procs[q].images0) = 2 /\ Cardinality(procs[q].rows0) = 1
        /\ ~Exists(1) /\ images = {} /\ inters = {}

----------------------------------------------------------------------------
(* The gate after a change of address (checked under SpecRevoke) *)

(* the step is a listing creation of slot p by a user whose address was
   changed with no verify_email success since *)
RevokedCreate(p) ==
    /\ hist'.nreq # hist.nreq /\ procs'[p] # procs[p]
    /\ procs'[p].pc = "done" /\ procs'[p].op \in {"create_job", "create_property"}
    /\ procs'[p].user \in hist.revoked

(* the step ends an update_email of slot p *)
EmailUpdateEnds(p) ==
    /\ procs'[p] # procs[p]
    /\ procs'[p].pc = "done" /\ procs'[p].op = "update_email"

C39_Step ==
    \A p \in Procs :
        /\ RevokedCreate(p) => procs'[p].res = "email_not_verified"
        /\ (EmailUpdateEnds(p) /\ procs'[p].res = "ok") =>
               ~users'[procs'[p].user].email_verified
        /\ (EmailUpdateEnds(p) /\ procs'[p].res \in {"in_use", "forbidden"}) =>
               users' = users

(* C39: after a successful update_email the user's email_verified is false and
   every later listing creation of that user is denied with "email not
   verified" until a verify_email succeeds for the user; a rejected
   update_email changes neither the address nor the flag *)
C39_AddressChangeRevokes ==
    [][C39_Step]_vars

(* alice's address was changed with no verification since, her flag is true
   again, and her listing creation was let through the gate *)
C39_Witness ==
    \E p \in Procs :
        /\ procs[p].pc = "done" /\ procs[p].op \in {"create_job", "create_property"}
        /\ procs[p].user \in hist.revoked
        /\ procs[p].flags.email_verified
        /\ procs[p].res = "created"
        /\ users[procs[p].user].email_verified

(* what the code does keep: while no two requests have overlapped, a user
   whose address was changed is denied every listing creation until a
   verify_email succeeds *)
C39_RevokesWhenSequential ==
    [][hist'.seq => C39_Step]_vars

====
